---- MODULE Spec2Model ----
(***************************************************************************)
(* Verification model of burbokop/fast-pased-mp-game.                      *)
(*                                                                         *)
(*   SpecPacket  the length-prefixed packet framing (common/packeter.rs)   *)
(*   Spec        the threads of the server against arbitrary peers          *)
(*   SpecGame    the world under the calls of the server                    *)
(*   SpecClient  the clients (client/client.rs) against the server          *)
(*   SpecRecon   one client against the packages a server may write         *)
(*   SpecReflect fn step and GameState::reflect on the plane                *)
(*   SpecCollide Collide::collide on the edges of two rectangles            *)
(*   SpecShield  the server threads around a player holding the Shield      *)
(***************************************************************************)
EXTENDS Integers, Sequences, FiniteSets, TLC

(***************************************************************************)
(* Bounds of the model.                                                    *)
(***************************************************************************)
\* number of PacketWriter::write calls in one run
MaxWrites == 3
\* the clock stops at MaxClock steps of 100 ms
MaxClock == 1
\* GameState::create is called at most MaxIds times
MaxIds == 6
\* the sequence numbers a peer puts into PlayerInput are 1..MaxSeq
MaxSeq == 1
\* the balls of a Shield self-destruct (the server creates 32 in 32
\* directions; on the line they fly right and left)
MaxBurst == 2
\* the packages all peers together send to the server
MaxPackages == 3
\* the fire block fires there while fewer projectiles than this are in the world
MaxProjectiles == 2
\* the sequence numbers a client whose keys are followed gives out
MaxKeysSeq == 3
\* the sequence numbers a client whose echo is followed gives out
MaxEchoSeq == 3
\* the packages written to the client after Init, where the server is any peer
MaxDelivered == 3
\* the steps a projectile takes on the plane
MaxSteps == 2
\* the simulation and the fire blocks stop before giving out this entity id
\* where a player holds the Shield
MaxShieldIds == 12
\* the clock of the world with a projectile in flight stops here
MaxFlightClock == 4
\* the entity ids given out in the world with a projectile in flight
MaxFlightIds == 18

(***************************************************************************)
(* State.                                                                  *)
(***************************************************************************)
VARIABLES
    \* ---- packet framing (common/packeter.rs) ----
    written,    \* history: the payloads given to PacketWriter::write, in order
    pipe,       \* bytes written to the stream and not yet copied by read
    buffer,     \* PacketReader::buffer
    yielded,    \* history: the payloads returned as Some(..) by next, in order
    iter,       \* the PacketReaderIter of the last read: "none" (dropped),
                \* "open" (alive, has not returned None), "drained" (returned None)
    last,       \* the last operation and, for next, what it returned; history:
                \* split (a read left part of a frame behind), early (an
                \* iterator was dropped while a complete frame was buffered)
    \* ---- server (server/server.rs, common/game.rs) ----
    game_state, \* Arc<Mutex<GameState>>: entities, next_entity_id, kills
    poisoned,   \* the mutex is poisoned: a thread panicked holding it
    clock,      \* Instant::now()
    tick,       \* the simulation thread: pc, last_proceed_instant; history of
                \* its last proceed call: dead (the world held a Character
                \* with health 0), reach (the most projectiles that could hit
                \* one character, counted up to 2)
    conn,       \* the connection threads: pc and locals, per player_id
    sent,       \* history per connection: the packages written to the stream
    packages_read, \* history: how many packages the server has read, all streams
    \* ---- client (client/client.rs) ----
    client,     \* per player: Networker::player_id (0 for None), the ids and
                \* owners of GameStateQueue::prediction and ::last_received,
                \* last_sequence_number; history: inits (Init packages handled),
                \* connects (PlayerConnected written), both counted up to 2,
                \* first (the first package written)
    to_server,  \* per connection: the packages written by the client and not
                \* yet read by the server
    to_client,  \* per connection: the packages written by the server and not
                \* yet read by the client
    peer,       \* history: how many packages a server that is any peer has
                \* written to the client after Init
    geo         \* the arguments and the result of a function on the plane;
                \* where the keys are followed, the movement Vector of the
                \* keys held in the last frame; where the echo is followed,
                \* history: the sequence_number of the last PlayerInput that
                \* the server read while the player had a character

packetVars == <<written, pipe, buffer, yielded, iter, last>>

serverVars == <<game_state, poisoned, clock, tick, conn, sent, packages_read>>

clientVars == <<client, to_server, to_client>>

calcVars == <<peer, geo>>

vars == <<written, pipe, buffer, yielded, iter, last,
          game_state, poisoned, clock, tick, conn, sent, packages_read,
          client, to_server, to_client, peer, geo>>

(***************************************************************************)
(* Packet framing: common/packeter.rs                                      *)
(***************************************************************************)
\* size_of::<PacketSize>() with PacketSize = u32
HeaderSize == 4

\* the payloads the writer is given: empty, one byte, and a four-byte payload
\* that reads as a length header itself
Payloads == { <<>>, <<9>>, <<0, 0, 0, 1>> }

\* PacketSize::to_be_bytes(n as u32): the four low-order bytes of n, the most
\* significant first (taking each byte modulo 256 is the truncation to u32)
ToBeBytes(n) ==
    << (n \div 16777216) % 256, (n \div 65536) % 256, (n \div 256) % 256, n % 256 >>

\* PacketSize::from_be_bytes(b) as usize
FromBeBytes(b) == b[1] * 16777216 + b[2] * 65536 + b[3] * 256 + b[4]

\* the bytes PacketWriter::write puts on the stream for one payload
Frame(data) == ToBeBytes(Len(data)) \o data

\* Vec::drain(0..n): the vector without its first n elements
Drain(v, n) == SubSeq(v, n + 1, Len(v))

None == [some |-> FALSE, item |-> <<>>]
Some(x) == [some |-> TRUE, item |-> x]

\* a mutant of NextPacket: the header is not drained before the payload is taken
NextPacketKeepsHeader(buf) ==
    IF Len(buf) >= HeaderSize
    THEN LET size == FromBeBytes(SubSeq(buf, 1, HeaderSize))
         IN  IF Len(buf) >= HeaderSize + size
             THEN [ret |-> Some(SubSeq(buf, 1, size)), rest |-> Drain(buf, size)]
             ELSE [ret |-> None, rest |-> buf]
    ELSE [ret |-> None, rest |-> buf]

\* a mutant of NextPacket: the header is drained as soon as it is complete
NextPacketEagerHeader(buf) ==
    IF Len(buf) >= HeaderSize
    THEN LET size == FromBeBytes(SubSeq(buf, 1, HeaderSize))
             body == Drain(buf, HeaderSize)
         IN  IF Len(body) >= size
             THEN [ret |-> Some(SubSeq(body, 1, size)), rest |-> Drain(body, size)]
             ELSE [ret |-> None, rest |-> body]
    ELSE [ret |-> None, rest |-> buf]

\* PacketReaderIter::next on a reader whose buffer is buf: the value returned
\* and the buffer left behind
NextPacket(buf) ==
    IF Len(buf) >= HeaderSize
    THEN LET size == FromBeBytes(SubSeq(buf, 1, HeaderSize))
         IN  IF Len(buf) >= HeaderSize + size
             THEN LET body == Drain(buf, HeaderSize)
                  IN  [ret |-> Some(SubSeq(body, 1, size)), rest |-> Drain(body, size)]
             ELSE [ret |-> None, rest |-> buf]
    ELSE [ret |-> None, rest |-> buf]

PacketInit ==
    /\ written = <<>>
    /\ pipe = <<>>
    /\ buffer = <<>>
    /\ yielded = <<>>
    /\ iter = "none"
    /\ last = [op |-> "new", ret |-> None, split |-> FALSE, early |-> FALSE,
               err |-> FALSE, zero |-> FALSE]

\* PacketWriter::write(stream, data): the header, then the payload
Write(data) ==
    /\ Len(written) < MaxWrites
    /\ pipe' = pipe \o Frame(data)
    /\ written' = Append(written, data)
    /\ last' = [last EXCEPT !.op = "write", !.ret = None]
    /\ UNCHANGED <<buffer, yielded, iter>>

\* how a read of the stream ends after the bytes it has at this moment: the
\* end of the stream, or an error of one of these kinds
ReadEnds == {"Eof", "WouldBlock", "ConnectionReset"}

\* std::io::copy(read, &mut self.buffer) that has copied k bytes
IoCopy(k, end) ==
    IF end = "Eof" THEN [ok |-> TRUE, value |-> k, kind |-> "none"]
    ELSE [ok |-> FALSE, value |-> 0, kind |-> end]

\* a mutant of IgnoreWouldBlock: every error is returned
IgnoreNothing(r, default) == r

\* PacketReader::ignore_would_block
IgnoreWouldBlock(r, default) ==
    IF r.ok THEN r
    ELSE IF r.kind = "WouldBlock" THEN [ok |-> TRUE, value |-> default, kind |-> "none"]
    ELSE r

\* PacketReader::read(stream): io::copy appends the k bytes the stream has
\* at this moment, then meets the end of the stream or an error; unless the
\* error is returned, read hands out an iterator borrowing the reader
Read(k, end) ==
    /\ iter = "none"
    /\ buffer' = buffer \o SubSeq(pipe, 1, k)
    /\ pipe' = Drain(pipe, k)
    /\ LET r == IgnoreWouldBlock(IoCopy(k, end), 0)
       IN  /\ iter' = IF r.ok THEN "open" ELSE "none"
           /\ last' = [last EXCEPT !.op = "read", !.ret = None,
                                    !.err = ~r.ok, !.zero = (k = 0)]
    /\ UNCHANGED <<written, yielded>>

\* PacketReaderIter::next
IterNext ==
    /\ iter = "open"
    /\ LET r == NextPacket(buffer)
       IN  /\ buffer' = r.rest
           /\ yielded' = IF r.ret.some THEN Append(yielded, r.ret.item) ELSE yielded
           /\ iter' = IF r.ret.some THEN "open" ELSE "drained"
           /\ last' = [last EXCEPT !.op = "next", !.ret = r.ret,
                                    !.split = @ \/ (~r.ret.some /\ buffer # <<>>)]
    /\ UNCHANGED <<written, pipe>>

\* the iterator goes out of scope, drained or not
IterDrop ==
    /\ iter # "none"
    /\ iter' = "none"
    /\ last' = [last EXCEPT !.op = "drop", !.ret = None,
                             !.early = @ \/ NextPacket(buffer).ret.some]
    /\ UNCHANGED <<written, pipe, buffer, yielded>>

PacketNext ==
    \/ \E data \in Payloads : Write(data)
    \/ \E k \in 0..Len(pipe) : \E end \in ReadEnds : Read(k, end)
    \/ IterNext
    \/ IterDrop

(***************************************************************************)
(* The world: common/game.rs.                                              *)
(*                                                                         *)
(* The world is kept on one horizontal line at mid height: a position is   *)
(* the x coordinate, a rotation is the real part of a unit Complex with    *)
(* imaginary part 0, so 1 (facing right) or -1 (facing left).  Time is an  *)
(* integer clock of 100 ms steps, velocities are distances per step.       *)
(***************************************************************************)
\* Duration::from_millis(ms) and Duration::from_secs(s) in clock steps
Millis(ms) == ms \div 100
Secs(s) == s * 10

Abs(x) == IF x < 0 THEN -x ELSE x
Min(a, b) == IF a <= b THEN a ELSE b
Max(a, b) == IF a >= b THEN a ELSE b
\* f32::signum: 1.0 for +0.0 and positive numbers, -1.0 for negative ones
Signum(x) == IF x >= 0 THEN 1 ELSE -1

\* GameState::new: world_bounds (x, w); the line lies strictly between the
\* top and the bottom edge
WorldBounds == [x |-> 32, w |-> 800 - 64]

\* Entity::inscribed_circle_radius and Entity::vertices of a Character
CharacterRadius == 8
\* Entity::inscribed_circle_radius of a Ray
RayRadius == 2
\* GameState::create: the health of a new Character
CharacterHealth == 3

NoTail == [some |-> FALSE, end |-> 0, rotation |-> 1, reflection_points |-> <<>>]
SomeTail(end, rotation) ==
    [some |-> TRUE, end |-> end, rotation |-> rotation, reflection_points |-> <<>>]

\* ProjectileKind::Ball, ::Ray and ::Mine
Ball(life, inv, velocity, health, radius) ==
    [name |-> "Ball", life_duration |-> life, owner_invincibility_duration |-> inv,
     velocity |-> velocity, health |-> health, radius |-> radius]
Ray(life, inv, freeze, velocity, health) ==
    [name |-> "Ray", life_duration |-> life, owner_invincibility_duration |-> inv,
     tail_freeze_duration |-> freeze, velocity |-> velocity, health |-> health]
Mine(life, inv, activation, velocity, acceleration, radius, detection, explosion, debris_kind, debris_count) ==
    [name |-> "Mine", life_duration |-> life, owner_invincibility_duration |-> inv,
     activation_duration |-> activation, velocity |-> velocity,
     acceleration |-> acceleration, radius |-> radius, detection_radius |-> detection,
     explosion_radius |-> explosion, debris_kind |-> debris_kind,
     debris_count |-> debris_count]

\* EntityRole::Character and ::Projectile
Character(weapon) == [type |-> "Character", weapon |-> weapon]
Projectile(kind) == [type |-> "Projectile", kind |-> kind]

\* EntityCreateInfo
CreateInfo(pos, rot, role, tail) == [pos |-> pos, rot |-> rot, role |-> role, tail |-> tail]

\* the Entity that GameState::create pushes
NewEntity(id, info, player_id, now) ==
    [id |-> id, player_id |-> player_id, birth_instant |-> now,
     pos |-> info.pos, rot |-> info.rot,
     health |-> IF info.role.type = "Character" THEN CharacterHealth
                ELSE IF info.role.kind.name = "Mine" THEN 0 ELSE info.role.kind.health,
     role |-> info.role, tail |-> info.tail, activated |-> FALSE]

\* a mutant of Create: next_entity_id is not incremented
CreateSameId(gs, info, player_id, now) ==
    [gs EXCEPT !.entities = Append(@, NewEntity(gs.next_entity_id, info, player_id, now))]

\* GameState::create
Create(gs, info, player_id, now) ==
    [gs EXCEPT !.entities = Append(@, NewEntity(gs.next_entity_id, info, player_id, now)),
               !.next_entity_id = @ + 1]

RECURSIVE CreateAll(_, _, _)
\* GameState::proceed, last loop: create every queued (EntityCreateInfo, player_id)
CreateAll(gs, infos, now) ==
    IF infos = <<>> THEN gs
    ELSE CreateAll(Create(gs, Head(infos).info, Head(infos).player_id, now), Tail(infos), now)

IsCharacter(e) == e.role.type = "Character"
IsProjectile(e) == e.role.type = "Projectile"
IsKind(e, name) == IsProjectile(e) /\ e.role.kind.name = name

\* Entity::inscribed_circle_radius
InscribedCircleRadius(e) ==
    IF IsCharacter(e) THEN CharacterRadius
    ELSE IF e.role.kind.name = "Ray" THEN RayRadius ELSE e.role.kind.radius

\* (a - b).len() on the line
Dist(a, b) == Abs(a - b)

\* Vec::iter().position(|x| *x == id): the first index of id in kills, 0 for None
RECURSIVE PositionFrom(_, _, _)
PositionFrom(kills, id, i) ==
    IF i > Len(kills) THEN 0
    ELSE IF kills[i] = id THEN i ELSE PositionFrom(kills, id, i + 1)
Position(kills, id) == PositionFrom(kills, id, 1)

\* Vec::remove(index)
Remove(v, i) == SubSeq(v, 1, i - 1) \o SubSeq(v, i + 1, Len(v))

\* GameState::find_character_by_player_id_mut: the index of the first
\* Character of the player, 0 for None
RECURSIVE FindCharacterFrom(_, _, _)
FindCharacterFrom(es, player_id, i) ==
    IF i > Len(es) THEN 0
    ELSE IF IsCharacter(es[i]) /\ es[i].player_id = player_id THEN i
         ELSE FindCharacterFrom(es, player_id, i + 1)
FindCharacterByPlayerId(es, player_id) == FindCharacterFrom(es, player_id, 1)

\* velocity * dt.as_secs_f32(): the distance covered in dt clock steps at a
\* velocity given per second
Travel(velocity, dt) == (velocity * dt) \div 10

\* Segment::ray_cast(..).intersects() of a vertical segment at x (a shield or
\* a world-bound edge, the line passing strictly between its end points) and
\* the motion segment from p0 to p1: both scalars strictly inside (0, 1)
Intersects(x, p0, p1) == (p0 < x /\ x < p1) \/ (p1 < x /\ x < p0)

\* Shield::segment: the x of the shield of a character at pos facing rot
ShieldSegment(shield, pos, rot) == pos + rot * shield.dst_from_character

RECURSIVE ShieldsFrom(_, _)
\* GameState::proceed, step 1: the shield segments of the Shield wielders,
\* in entity order
ShieldsFrom(es, i) ==
    IF i > Len(es) THEN <<>>
    ELSE (IF IsCharacter(es[i]) /\ es[i].role.weapon.name = "Shield"
          THEN <<ShieldSegment(es[i].role.weapon.shield, es[i].pos, es[i].rot)>>
          ELSE <<>>) \o ShieldsFrom(es, i + 1)
Shields(es) == ShieldsFrom(es, 1)

\* RayCastScalars::intersection_point_u_mul(0.99): the point 99% of the way
\* from the start of the motion segment to the crossing, rounded towards
\* the start
IntersectionPointUMul(p0, x) ==
    IF x >= p0 THEN p0 + ((x - p0) * 99) \div 100 ELSE p0 - ((p0 - x) * 99) \div 100

\* Complex::reflect_from(v) for a vertical v: the real part changes sign
ReflectFrom(rot) == -rot

RECURSIVE ReflectShields(_, _, _, _)
\* GameState::reflect, first loop: the first shield crossed, in order
ReflectShields(shields, i, rot, motion) ==
    IF i > Len(shields) THEN [hit |-> FALSE, pos |-> motion.p0, rot |-> rot]
    ELSE IF Intersects(shields[i], motion.p0, motion.p1)
         THEN [hit |-> TRUE, pos |-> IntersectionPointUMul(motion.p0, shields[i]),
               rot |-> ReflectFrom(rot)]
         ELSE ReflectShields(shields, i + 1, rot, motion)

\* GameState::reflect, second loop.  Edges 0 (top) and 2 (bottom) are
\* parallel to the motion and never intersect it; edge 1 is the right bound,
\* edge 3 the left one
ReflectBounds(pos, rot, motion) ==
    IF Intersects(WorldBounds.x + WorldBounds.w, motion.p0, motion.p1)
    THEN [hit |-> TRUE, pos |-> WorldBounds.x + WorldBounds.w, rot |-> -Abs(rot)]
    ELSE IF Intersects(WorldBounds.x, motion.p0, motion.p1)
         THEN [hit |-> TRUE, pos |-> WorldBounds.x, rot |-> Abs(rot)]
         ELSE [hit |-> FALSE, pos |-> pos, rot |-> rot]

\* GameState::reflect: shields first, then the world bounds
Reflect(pos, rot, shields, motion) ==
    LET s == ReflectShields(shields, 1, rot, motion)
    IN  IF s.hit THEN s ELSE ReflectBounds(pos, rot, motion)

\* VecDeque::pop_front, nothing on an empty queue
PopFront(q) == IF q = <<>> THEN q ELSE Tail(q)

\* fn step inside GameState::proceed.  mode is "none" (no reflection_points
\* given), "head" (tail = false) or "tail" (tail = true)
Step(pos, rot, points, mode, shields, velosity, dt) ==
    LET motion == [p0 |-> pos, p1 |-> pos + rot * ((velosity * 2 * dt) \div 10)]
        r == Reflect(pos, rot, shields, motion)
    IN  IF r.hit
        THEN [pos |-> r.pos, rot |-> r.rot,
              points |-> IF mode = "tail" THEN PopFront(points)
                         ELSE IF mode = "head" THEN Append(points, r.pos)
                         ELSE points]
        ELSE [pos |-> pos + rot * Travel(velosity, dt), rot |-> rot, points |-> points]

\* GameState::proceed, first retain: the closure on one Ray
AdvanceRay(e, now, dt, shields) ==
    LET kind == e.role.kind
        age == now - e.birth_instant
        head == IF age < kind.life_duration
                THEN Step(e.pos, e.rot, e.tail.reflection_points, "head", shields,
                          kind.velocity, dt)
                ELSE [pos |-> e.pos, rot |-> e.rot, points |-> e.tail.reflection_points]
        tail == IF age > kind.tail_freeze_duration
                THEN Step(e.tail.end, e.tail.rotation, head.points, "tail", shields,
                          kind.velocity, dt)
                ELSE [pos |-> e.tail.end, rot |-> e.tail.rotation, points |-> head.points]
    IN  [keep |-> age < kind.life_duration + kind.tail_freeze_duration,
         e |-> [e EXCEPT !.pos = head.pos, !.rot = head.rot,
                         !.tail = [some |-> TRUE, end |-> tail.pos,
                                   rotation |-> tail.rot,
                                   reflection_points |-> tail.points]]]

\* a mutant of AdvanceMine: the mine is activated as soon as its age reaches
\* activation_duration
AdvanceMineEarly(e, now, dt, shields) ==
    LET kind == e.role.kind
        age == now - e.birth_instant
        new_velocity == kind.velocity + (kind.acceleration * dt) \div 10
        velocity == IF Signum(kind.velocity) = Signum(new_velocity)
                    THEN new_velocity ELSE kind.velocity
        moved == Step(e.pos, e.rot, <<>>, "none", shields, kind.velocity, dt)
    IN  [keep |-> age < kind.life_duration,
         e |-> [e EXCEPT !.activated = age >= kind.activation_duration,
                         !.role.kind.velocity = velocity,
                         !.pos = moved.pos, !.rot = moved.rot]]

\* GameState::proceed, first retain: the closure on one Mine.  The step uses
\* the velocity read before the update
AdvanceMine(e, now, dt, shields) ==
    LET kind == e.role.kind
        age == now - e.birth_instant
        new_velocity == kind.velocity + (kind.acceleration * dt) \div 10
        velocity == IF Signum(kind.velocity) = Signum(new_velocity)
                    THEN new_velocity ELSE kind.velocity
        moved == Step(e.pos, e.rot, <<>>, "none", shields, kind.velocity, dt)
    IN  [keep |-> age < kind.life_duration,
         e |-> [e EXCEPT !.activated = age > kind.activation_duration,
                         !.role.kind.velocity = velocity,
                         !.pos = moved.pos, !.rot = moved.rot]]

\* a mutant of AdvanceBall: the Ball is kept while its age is at most
\* life_duration
AdvanceBallLate(e, now, dt, shields) ==
    LET kind == e.role.kind
        moved == Step(e.pos, e.rot, <<>>, "none", shields, kind.velocity, dt)
    IN  [keep |-> now - e.birth_instant <= kind.life_duration,
         e |-> [e EXCEPT !.pos = moved.pos, !.rot = moved.rot]]

\* GameState::proceed, first retain: the closure on one Ball
AdvanceBall(e, now, dt, shields) ==
    LET kind == e.role.kind
        moved == Step(e.pos, e.rot, <<>>, "none", shields, kind.velocity, dt)
    IN  [keep |-> now - e.birth_instant < kind.life_duration,
         e |-> [e EXCEPT !.pos = moved.pos, !.rot = moved.rot]]

\* a mutant of AdvanceEntity: a Character whose health is 0 is not retained
AdvanceEntityDropsDead(e, now, dt, shields) ==
    IF IsCharacter(e) THEN [keep |-> e.health # 0, e |-> e]
    ELSE IF e.role.kind.name = "Ray" THEN AdvanceRay(e, now, dt, shields)
    ELSE IF e.role.kind.name = "Mine" THEN AdvanceMine(e, now, dt, shields)
    ELSE AdvanceBall(e, now, dt, shields)

\* GameState::proceed, first retain: the closure; a Character is always kept
AdvanceEntity(e, now, dt, shields) ==
    IF IsCharacter(e) THEN [keep |-> TRUE, e |-> e]
    ELSE IF e.role.kind.name = "Ray" THEN AdvanceRay(e, now, dt, shields)
    ELSE IF e.role.kind.name = "Mine" THEN AdvanceMine(e, now, dt, shields)
    ELSE AdvanceBall(e, now, dt, shields)

RECURSIVE RetainAdvance(_, _, _, _, _)
\* GameState::proceed, step 2: self.entities.retain(..)
RetainAdvance(es, i, now, dt, shields) ==
    IF i > Len(es) THEN <<>>
    ELSE LET r == AdvanceEntity(es[i], now, dt, shields)
         IN  (IF r.keep THEN <<r.e>> ELSE <<>>) \o RetainAdvance(es, i + 1, now, dt, shields)

\* a mutant of MayAffect: the owner is not protected
MayAffectAlways(c, p, now) == TRUE

\* owner invincibility: the projectile may act on the character
MayAffect(c, p, now) ==
    \/ p.player_id # c.player_id
    \/ now - p.birth_instant > p.role.kind.owner_invincibility_duration

\* [seg].collide(&character.vertices().segments_ringe()).is_some() for the
\* trace segment from a to b: the separating-axis test with closed
\* intervals; a segment of length 0 has a NaN axis and never collides
SegmentHitsCharacter(a, b, c) ==
    /\ a # b
    /\ Min(a, b) <= c.pos + CharacterRadius
    /\ c.pos - CharacterRadius <= Max(a, b)

\* projectile_trace.segments().any(..) for the trace tail.end, the
\* reflection points, projectile.pos
TraceHitsCharacter(p, c) ==
    LET trace == <<p.tail.end>> \o p.tail.reflection_points \o <<p.pos>>
    IN  \E i \in 1..(Len(trace) - 1) : SegmentHitsCharacter(trace[i], trace[i + 1], c)

\* the collision test of the Ball branch
BallHitsCharacter(p, c) ==
    Dist(c.pos, p.pos) < InscribedCircleRadius(c) + InscribedCircleRadius(p)

\* the body of a Ball or Ray hit: both lose one health point, whoever reaches
\* 0 is queued in kills
Hit(st, ci, pi) ==
    LET c == st.es[ci]
        p == st.es[pi]
    IN  [st EXCEPT !.es = [@ EXCEPT ![ci].health = c.health - 1, ![pi].health = p.health - 1],
                   !.kills = @ \o (IF c.health - 1 = 0 THEN <<c.id>> ELSE <<>>)
                               \o (IF p.health - 1 = 0 THEN <<p.id>> ELSE <<>>)]

\* Complex::from_rad((i / count) * 2 PI) on the line: 1 for no turn, -1 for
\* half a turn
FromRadTurn(i, count) == IF 2 * i = count THEN -1 ELSE 1

\* a mutant of Debris: the debris has no tail
DebrisUntailed(p) ==
    [i \in 1..p.role.kind.debris_count |->
        LET rot == FromRadTurn(i - 1, p.role.kind.debris_count)
        IN  [info |-> CreateInfo(p.pos, rot, Projectile(p.role.kind.debris_kind), NoTail),
             player_id |-> p.player_id]]

\* the EntityCreateInfos of a detonating mine, for i in 0..debris_count
Debris(p) ==
    [i \in 1..p.role.kind.debris_count |->
        LET rot == FromRadTurn(i - 1, p.role.kind.debris_count)
        IN  [info |-> CreateInfo(p.pos, rot, Projectile(p.role.kind.debris_kind),
                                 SomeTail(p.pos, rot)),
             player_id |-> p.player_id]]

\* a mutant of DamagePair: the guard on the two healths is missing
DamagePairUnguarded(st, ci, pi, now, dt) ==
    LET c == st.es[ci]
        p == st.es[pi]
    IN  IF IsKind(p, "Ball") /\ MayAffect(c, p, now) /\ BallHitsCharacter(p, c)
        THEN [st |-> Hit(st, ci, pi), brk |-> TRUE]
        ELSE [st |-> st, brk |-> FALSE]

\* a mutant of DamagePair: a hit does not leave the inner loop
DamagePairNoBreak(st, ci, pi, now, dt) ==
    LET c == st.es[ci]
        p == st.es[pi]
    IN  IF /\ IsKind(p, "Ball") \/ IsKind(p, "Ray")
           /\ MayAffect(c, p, now)
           /\ c.health # 0 /\ p.health # 0
           /\ IF IsKind(p, "Ball") THEN BallHitsCharacter(p, c) ELSE TraceHitsCharacter(p, c)
        THEN [st |-> Hit(st, ci, pi), brk |-> FALSE]
        ELSE [st |-> st, brk |-> FALSE]

\* a mutant of DamagePair: a detonating mine takes a health point of the
\* character that set it off
DamagePairMineHurts(st, ci, pi, now, dt) ==
    LET c == st.es[ci]
        p == st.es[pi]
    IN  IF /\ IsKind(p, "Mine") /\ p.activated /\ MayAffect(c, p, now)
           /\ Dist(c.pos, p.pos) < InscribedCircleRadius(c) + p.role.kind.explosion_radius
        THEN [st |-> [st EXCEPT !.infos = @ \o Debris(p),
                                !.kills = Append(@, p.id),
                                !.es[ci].health = @ - 1],
              brk |-> TRUE]
        ELSE [st |-> st, brk |-> FALSE]

\* GameState::proceed, step 3: the body of the inner loop for the character
\* at index ci and the other entity at index pi; brk says that the inner
\* loop is left
DamagePair(st, ci, pi, now, dt) ==
    LET c == st.es[ci]
        p == st.es[pi]
        stay == [st |-> st, brk |-> FALSE]
    IN  IF IsKind(p, "Ball")
        THEN IF /\ MayAffect(c, p, now)
                /\ c.health # 0 /\ p.health # 0 /\ BallHitsCharacter(p, c)
             THEN [st |-> Hit(st, ci, pi), brk |-> TRUE]
             ELSE stay
        ELSE IF IsKind(p, "Ray")
        THEN IF /\ MayAffect(c, p, now)
                /\ c.health # 0 /\ p.health # 0 /\ TraceHitsCharacter(p, c)
             THEN [st |-> Hit(st, ci, pi), brk |-> TRUE]
             ELSE stay
        ELSE IF IsKind(p, "Mine")
        THEN IF p.activated /\ MayAffect(c, p, now)
             THEN IF Dist(c.pos, p.pos) < InscribedCircleRadius(c) + p.role.kind.explosion_radius
                  THEN [st |-> [st EXCEPT !.infos = @ \o Debris(p),
                                          !.kills = Append(@, p.id)],
                        brk |-> TRUE]
                  ELSE IF Dist(c.pos, p.pos)
                            < InscribedCircleRadius(c) + p.role.kind.detection_radius
                       THEN [st |-> [st EXCEPT !.es[pi].pos =
                                         @ + Signum(c.pos - p.pos)
                                             * ((-2 * p.role.kind.acceleration * dt) \div 10)],
                             brk |-> FALSE]
                       ELSE stay
             ELSE stay
        ELSE stay

RECURSIVE DamageInner(_, _, _, _, _)
\* GameState::proceed, step 3: for projectile in &self.entities; the
\* character itself is borrowed and skipped
DamageInner(st, ci, pi, now, dt) ==
    IF pi > Len(st.es) THEN st
    ELSE IF pi = ci THEN DamageInner(st, ci, pi + 1, now, dt)
         ELSE LET r == DamagePair(st, ci, pi, now, dt)
              IN  IF r.brk THEN r.st ELSE DamageInner(r.st, ci, pi + 1, now, dt)

RECURSIVE DamageOuter(_, _, _, _)
\* GameState::proceed, step 3: for character in &self.entities
DamageOuter(st, ci, now, dt) ==
    IF ci > Len(st.es) THEN st
    ELSE IF IsCharacter(st.es[ci])
         THEN DamageOuter(DamageInner(st, ci, 1, now, dt), ci + 1, now, dt)
         ELSE DamageOuter(st, ci + 1, now, dt)

RECURSIVE SweepKeepsRecords(_, _)
\* a mutant of Sweep: the record of a projectile removed stays in kills
SweepKeepsRecords(es, kills) ==
    IF es = <<>> THEN [es |-> <<>>, kills |-> kills]
    ELSE LET e == Head(es)
             rest == SweepKeepsRecords(Tail(es), kills)
         IN  IF Position(kills, e.id) # 0 /\ IsProjectile(e)
             THEN rest
             ELSE [es |-> <<e>> \o rest.es, kills |-> rest.kills]

RECURSIVE Sweep(_, _)
\* GameState::proceed, step 4: the second retain; st is [es, kills], the
\* result holds the entities kept and the kills left
Sweep(es, kills) ==
    IF es = <<>> THEN [es |-> <<>>, kills |-> kills]
    ELSE LET e == Head(es)
             index == Position(kills, e.id)
         IN  IF index # 0 /\ IsProjectile(e)
             THEN Sweep(Tail(es), Remove(kills, index))
             ELSE LET rest == Sweep(Tail(es), kills)
                  IN  [es |-> <<e>> \o rest.es, kills |-> rest.kills]

\* GameState::proceed, steps 1 and 2: the entities after the first retain
Advanced(gs, now, dt) == RetainAdvance(gs.entities, 1, now, dt, Shields(gs.entities))

\* GameState::proceed, steps 1 to 3: entities, kills and create_infos after
\* the damage loops
Damaged(gs, now, dt) ==
    DamageOuter([es |-> Advanced(gs, now, dt), kills |-> gs.kills, infos |-> <<>>],
                1, now, dt)

\* a mutant of Proceed: damage is resolved before the projectiles advance
ProceedDamagesFirst(gs, now, dt) ==
    LET damaged == DamageOuter([es |-> gs.entities, kills |-> gs.kills, infos |-> <<>>],
                               1, now, dt)
        advanced == RetainAdvance(damaged.es, 1, now, dt, Shields(gs.entities))
        swept == Sweep(advanced, damaged.kills)
    IN  CreateAll([gs EXCEPT !.entities = swept.es, !.kills = swept.kills],
                  damaged.infos, now)

\* GameState::proceed(dt) called at instant now
Proceed(gs, now, dt) ==
    LET damaged == Damaged(gs, now, dt)
        swept == Sweep(damaged.es, damaged.kills)
    IN  CreateAll([gs EXCEPT !.entities = swept.es, !.kills = swept.kills],
                  damaged.infos, now)

\* GameState::register_kill: ok is the assertion
RegisterKill(gs, id) ==
    [ok |-> Position(gs.kills, id) = 0, gs |-> [gs EXCEPT !.kills = Append(@, id)]]

RECURSIVE AccountRetainAnyOwner(_, _, _)
\* a mutant of AccountRetain: the owner of the character is not compared
AccountRetainAnyOwner(es, kills, player_id) ==
    IF es = <<>> THEN [es |-> <<>>, kills |-> kills]
    ELSE LET e == Head(es)
             index == Position(kills, e.id)
         IN  IF IsCharacter(e) /\ index # 0
             THEN AccountRetainAnyOwner(Tail(es), Remove(kills, index), player_id)
             ELSE LET rest == AccountRetainAnyOwner(Tail(es), kills, player_id)
                  IN  [es |-> <<e>> \o rest.es, kills |-> rest.kills]

RECURSIVE AccountRetain(_, _, _)
\* GameState::account_kill: the retain
AccountRetain(es, kills, player_id) ==
    IF es = <<>> THEN [es |-> <<>>, kills |-> kills]
    ELSE LET e == Head(es)
             index == Position(kills, e.id)
         IN  IF IsCharacter(e) /\ e.player_id = player_id /\ index # 0
             THEN AccountRetain(Tail(es), Remove(kills, index), player_id)
             ELSE LET rest == AccountRetain(Tail(es), kills, player_id)
                  IN  [es |-> <<e>> \o rest.es, kills |-> rest.kills]

\* GameState::account_kill(player_id): the value returned and the state left
AccountKill(gs, player_id) ==
    LET r == AccountRetain(gs.entities, gs.kills, player_id)
    IN  [ret |-> Len(gs.entities) # Len(r.es),
         gs |-> [gs EXCEPT !.entities = r.es, !.kills = r.kills]]

(***************************************************************************)
(* The server: server/server.rs.                                           *)
(***************************************************************************)
\* std::thread::current().id().as_u64() of the connection threads
Players == {1, 2}

\* rng: the points random_point_inside_bounds may return
SpawnPoints == {40}

\* character_weapon_from_player_weapon.  On the line a mine has room for the
\* debris flying right and left only, so debris_count is 2 where the server's
\* table says 6 and 12
CharacterWeaponFromPlayerWeapon(weapon) ==
    CASE weapon = "BallGun" ->
            [name |-> "BallGun", life_duration |-> Secs(60),
             owner_invincibility_duration |-> Millis(200),
             fire_interval |-> Millis(1000 \div 10), velocity |-> 200,
             projectile_health |-> 1, radius |-> 4]
      [] weapon = "PulseGun" ->
            [name |-> "RayGun", life_duration |-> Millis(4000),
             owner_invincibility_duration |-> Millis(500),
             tail_freeze_duration |-> Millis(100),
             fire_interval |-> Millis(1000), velocity |-> 1000, projectile_health |-> 1]
      [] weapon = "RayGun" ->
            [name |-> "RayGun", life_duration |-> Millis(1000),
             owner_invincibility_duration |-> Millis(500),
             tail_freeze_duration |-> Millis(1000),
             fire_interval |-> Millis(2000), velocity |-> 2000, projectile_health |-> 16]
      [] weapon = "Shield" ->
            [name |-> "Shield", shield |-> [width |-> 48, dst_from_character |-> 32],
             self_destruct_timeout |-> Secs(2)]
      [] weapon = "MineGun" ->
            [name |-> "MineGun", fire_interval |-> Secs(8), life_duration |-> Secs(32),
             owner_invincibility_duration |-> Secs(1000),
             activation_duration |-> Secs(2), start_velocity |-> 500,
             acceleration |-> -100, radius |-> 6, detection_radius |-> 200,
             explosion_radius |-> 100,
             debris_kind |->
                Mine(Secs(16), Secs(2), Secs(1), 500, -100, 4, 100, 50,
                     Ray(Millis(4000), Millis(500), Millis(100), 200, 1), 2),
             debris_count |-> 2]

PlayerWeapons == {"BallGun", "PulseGun", "RayGun", "Shield", "MineGun"}

\* the movement a peer puts into PlayerInput (the x component)
Movements == {0, 10}

\* ClientToServerPackage
PlayerConnected == [type |-> "PlayerConnected"]
PlayerInput(sequence_number, movement, rotation, left_mouse_pressed) ==
    [type |-> "PlayerInput", sequence_number |-> sequence_number, movement |-> movement,
     rotation |-> rotation, left_mouse_pressed |-> left_mouse_pressed]
RespawnRequest(weapon) == [type |-> "RespawnRequest", weapon |-> weapon]

\* the packages a peer may send
ClientPackages ==
    {PlayerConnected}
    \cup {PlayerInput(n, m, r, l) : n \in 1..MaxSeq, m \in Movements, r \in {1, -1},
                                    l \in BOOLEAN}
    \cup {RespawnRequest(w) : w \in PlayerWeapons}

\* the locals of a connection thread before its stream is accepted; weapon
\* is the one it gives its next Character
NewConn ==
    [pc |-> "idle", connected |-> FALSE, killed |-> FALSE,
     weapon |-> CharacterWeaponFromPlayerWeapon("BallGun"),
     left_mouse_pressed |-> FALSE, left_mouse_pressed_instant |-> 0,
     last_broadcust_instant |-> 0, last_sequence_number |-> 0,
     last_projectile_instant |-> 0]

\* a connection thread that panicked: its locals are gone
Panicked == [NewConn EXCEPT !.pc = "panicked"]

\* what a connection has written to its stream so far: the first package,
\* how many Init and how many Kill (counted up to 2), whether any Broadcast
NoneSent == [first |-> "none", Init |-> 0, Broadcast |-> 0, Kill |-> 0]
Sent(log, type) ==
    [log EXCEPT ![type] = IF type \in {"Init", "Kill"} THEN Min(@ + 1, 2) ELSE 1,
                !.first = IF @ = "none" THEN type ELSE @]

ServerInit ==
    /\ game_state = [entities |-> <<>>, next_entity_id |-> 0, kills |-> <<>>]
    /\ poisoned = FALSE
    /\ clock = 0
    /\ tick = [pc |-> "run", last_proceed_instant |-> 0, dead |-> FALSE, reach |-> 0]
    /\ conn = [p \in Players |-> NewConn]
    /\ sent = [p \in Players |-> NoneSent]
    /\ packages_read = 0

\* the characters whose health is 0
Dead(es) == {i \in 1..Len(es) : IsCharacter(es[i]) /\ es[i].health = 0}

\* the Balls and Rays that could hit the character at index ci now
InReach(es, ci, now) ==
    {pi \in 1..Len(es) :
        /\ IsKind(es[pi], "Ball") \/ IsKind(es[pi], "Ray")
        /\ MayAffect(es[ci], es[pi], now)
        /\ es[ci].health # 0 /\ es[pi].health # 0
        /\ IF IsKind(es[pi], "Ball") THEN BallHitsCharacter(es[pi], es[ci])
           ELSE TraceHitsCharacter(es[pi], es[ci])}

\* the most projectiles that could hit one character, counted up to 2
MostInReach(es, now) ==
    IF \E ci \in 1..Len(es) : IsCharacter(es[ci]) /\ Cardinality(InReach(es, ci, now)) >= 2
    THEN 2
    ELSE IF \E ci \in 1..Len(es) : IsCharacter(es[ci]) /\ InReach(es, ci, now) # {}
         THEN 1 ELSE 0

\* the clock moves on by one of these numbers of steps
TimeJumps == {1}

\* inside a round of the second loop, between let now and the sleep
InRound(p) == conn[p].pc \in {"recv", "kill", "kwrite", "bcast", "bwrite"}

\* time passes.  A clock step is 100 ms and a round of a connection thread
\* takes about 1 ms: the clock does not move inside a round, and now of the
\* round is the clock
Advance(d) ==
    /\ clock + d <= MaxClock
    /\ \A p \in Players : ~InRound(p)
    /\ clock' = clock + d
    /\ UNCHANGED <<game_state, poisoned, tick, conn, sent, packages_read>>

\* the simulation thread, one round of its loop: game_state.lock().unwrap()
\* .proceed(now - last_proceed_instant)
TickWithin(max_ids) ==
    /\ tick.pc = "run"
    /\ IF poisoned
       THEN /\ tick' = [tick EXCEPT !.pc = "panicked"]
            /\ UNCHANGED game_state
       ELSE LET gs == Proceed(game_state, clock, clock - tick.last_proceed_instant)
            IN  /\ gs.next_entity_id <= max_ids
                /\ game_state' = gs
                /\ tick' = [tick EXCEPT !.last_proceed_instant = clock,
                                         !.dead = Dead(game_state.entities) # {},
                                         !.reach = MostInReach(
                                             Advanced(game_state, clock,
                                                      clock - tick.last_proceed_instant),
                                             clock)]
    /\ UNCHANGED <<poisoned, clock, conn, sent, packages_read>>

\* the simulation thread while ids up to MaxIds are given out
Tick == TickWithin(MaxIds)

\* a mutant of Accept: the connection thread does not write Init
AcceptSilent(p) ==
    /\ conn[p].pc = "idle"
    /\ \A q \in Players : q < p => conn[q].pc # "idle"
    /\ conn' = [conn EXCEPT ![p] = [@ EXCEPT !.pc = "handshake",
                                             !.left_mouse_pressed_instant = clock]]
    /\ UNCHANGED <<game_state, poisoned, clock, tick, sent, packages_read>>

\* a peer connects: listener.incoming() yields a stream, the connection
\* thread starts (thread ids grow in the order of the streams) and writes Init
Accept(p) ==
    /\ conn[p].pc = "idle"
    /\ \A q \in Players : q < p => conn[q].pc # "idle"
    /\ conn' = [conn EXCEPT ![p] = [@ EXCEPT !.pc = "handshake",
                                             !.left_mouse_pressed_instant = clock]]
    /\ sent' = [sent EXCEPT ![p] = Sent(@, "Init")]
    /\ UNCHANGED <<game_state, poisoned, clock, tick, packages_read>>

\* a mutant of Spawn: the Character gets the BallGun whatever was asked for
SpawnBallGun(gs, p, weapon, pos, now) ==
    Create(gs, CreateInfo(pos, 1, Character(CharacterWeaponFromPlayerWeapon("BallGun")), NoTail),
           p, now)

\* game_state.create of a Character of the player with the weapon, facing
\* right (rot: Complex { r: 1., i: 0. })
Spawn(gs, p, weapon, pos, now) ==
    Create(gs, CreateInfo(pos, 1, Character(CharacterWeaponFromPlayerWeapon(weapon)), NoTail),
           p, now)

\* a mutant of HandshakePackage: a PlayerInput as first package is taken for
\* the connect package
HandshakePackageLenient(p, package, pos) ==
    IF package.type # "RespawnRequest" /\ ~poisoned
    THEN /\ game_state' = Spawn(game_state, p, "BallGun", pos, clock)
         /\ conn' = [conn EXCEPT ![p] = [@ EXCEPT !.pc = "top", !.connected = TRUE,
                                                  !.last_broadcust_instant = clock,
                                                  !.last_sequence_number = 0,
                                                  !.last_projectile_instant = clock]]
    ELSE /\ conn' = [conn EXCEPT ![p] = Panicked]
         /\ UNCHANGED game_state

\* the first loop of a connection thread on the first package read
HandshakePackage(p, package, pos) ==
    IF package.type = "PlayerConnected" /\ ~poisoned
    THEN /\ game_state' = Spawn(game_state, p, "BallGun", pos, clock)
         /\ conn' = [conn EXCEPT ![p] = [@ EXCEPT !.pc = "top", !.connected = TRUE,
                                                  !.last_broadcust_instant = clock,
                                                  !.last_sequence_number = 0,
                                                  !.last_projectile_instant = clock]]
    ELSE /\ conn' = [conn EXCEPT ![p] = Panicked]
         /\ UNCHANGED game_state

\* the first loop of a connection thread: reader.read(&mut stream)?.next()
\* returned the package
Handshake(p, package) ==
    /\ conn[p].pc = "handshake"
    /\ game_state.next_entity_id < MaxIds
    /\ \E pos \in SpawnPoints : HandshakePackage(p, package, pos)
    /\ packages_read < MaxPackages
    /\ packages_read' = packages_read + 1
    /\ UNCHANGED <<poisoned, clock, tick, sent>>

\* the second loop of a connection thread starts a round: let now
LoopTop(p) ==
    /\ conn[p].pc = "top"
    /\ conn' = [conn EXCEPT ![p].pc = "recv"]
    /\ UNCHANGED <<game_state, poisoned, clock, tick, sent, packages_read>>

\* [bound].collide of the character box at pos with the vertical world-bound
\* edge at x: the exit vector (x component), 0 for None
ExitVec(pos, x) ==
    IF pos - CharacterRadius <= x /\ x <= pos + CharacterRadius
    THEN LET a == x - (pos - CharacterRadius)
             b == x - (pos + CharacterRadius)
         IN  IF Abs(a) < Abs(b) THEN a ELSE b
    ELSE 0

\* PlayerInput on a found character: move, turn, leave the world-bound edges
\* (edge 1, the right one, before edge 3, the left one)
MoveCharacter(e, package) ==
    LET moved == e.pos + package.movement
        off1 == moved + ExitVec(moved, WorldBounds.x + WorldBounds.w)
        off3 == off1 + ExitVec(off1, WorldBounds.x)
    IN  [e EXCEPT !.pos = off3, !.rot = package.rotation]

\* a mutant of OnPlayerInput: last_sequence_number is set whether or not
\* the character is found
OnPlayerInputAlways(p, package) ==
    LET i == FindCharacterByPlayerId(game_state.entities, p)
        pressed == [conn[p] EXCEPT
                      !.left_mouse_pressed_instant =
                          IF ~conn[p].left_mouse_pressed /\ package.left_mouse_pressed
                          THEN clock ELSE @,
                      !.left_mouse_pressed = package.left_mouse_pressed,
                      !.last_sequence_number = package.sequence_number]
    IN  IF poisoned
        THEN /\ conn' = [conn EXCEPT ![p] = Panicked]
             /\ UNCHANGED game_state
        ELSE IF i # 0
        THEN /\ game_state' = [game_state EXCEPT
                                  !.entities[i] = MoveCharacter(@, package)]
             /\ conn' = [conn EXCEPT ![p] = pressed]
        ELSE /\ conn' = [conn EXCEPT ![p] = pressed]
             /\ UNCHANGED game_state

\* the second loop, ClientToServerPackage::PlayerInput
OnPlayerInput(p, package) ==
    LET i == FindCharacterByPlayerId(game_state.entities, p)
        pressed == [conn[p] EXCEPT
                      !.left_mouse_pressed_instant =
                          IF ~conn[p].left_mouse_pressed /\ package.left_mouse_pressed
                          THEN clock ELSE @,
                      !.left_mouse_pressed = package.left_mouse_pressed]
    IN  IF poisoned
        THEN /\ conn' = [conn EXCEPT ![p] = Panicked]
             /\ UNCHANGED game_state
        ELSE IF i # 0
        THEN /\ game_state' = [game_state EXCEPT
                                  !.entities[i] = MoveCharacter(@, package)]
             /\ conn' = [conn EXCEPT ![p] =
                            [pressed EXCEPT !.last_sequence_number = package.sequence_number]]
        ELSE /\ conn' = [conn EXCEPT ![p] = pressed]
             /\ UNCHANGED game_state

\* a mutant of OnRespawnRequest: the request is served whether or not the
\* session is killed
OnRespawnRequestAlways(p, package, pos) ==
    /\ game_state.next_entity_id < MaxIds
    /\ conn' = [conn EXCEPT ![p] =
                   [@ EXCEPT !.killed = FALSE,
                             !.weapon = CharacterWeaponFromPlayerWeapon(package.weapon)]]
    /\ game_state' = Spawn(game_state, p, package.weapon, pos, clock)

\* the second loop, ClientToServerPackage::RespawnRequest
OnRespawnRequest(p, package, pos) ==
    IF ~conn[p].killed
    THEN UNCHANGED <<game_state, conn>>
    ELSE IF poisoned
    THEN /\ conn' = [conn EXCEPT ![p] = Panicked]
         /\ UNCHANGED game_state
    ELSE /\ game_state.next_entity_id < MaxIds
         /\ conn' = [conn EXCEPT ![p] =
                        [@ EXCEPT !.killed = FALSE,
                                  !.weapon = CharacterWeaponFromPlayerWeapon(package.weapon)]]
         /\ game_state' = Spawn(game_state, p, package.weapon, pos, clock)

\* the second loop: for data in reader.read(&mut stream)?, on the package
\* the iterator yields
Recv(p, package) ==
    /\ conn[p].pc = "recv"
    /\ CASE package.type = "PlayerConnected" ->
                /\ conn' = [conn EXCEPT ![p] = Panicked]
                /\ UNCHANGED game_state
         [] package.type = "PlayerInput" -> OnPlayerInput(p, package)
         [] package.type = "RespawnRequest" ->
                \E pos \in SpawnPoints : OnRespawnRequest(p, package, pos)
    /\ packages_read < MaxPackages
    /\ packages_read' = packages_read + 1
    /\ UNCHANGED <<poisoned, clock, tick, sent>>

RECURSIVE Burst(_, _, _, _, _)
\* the Shield branch of the fire block: for i in 0..count, a Ball living i
\* seconds
Burst(gs, character, i, count, now) ==
    IF i >= count THEN gs
    ELSE Burst(Create(gs,
                      CreateInfo(character.pos, FromRadTurn(i, count),
                                 Projectile(Ball(Secs(i), Secs(1000), 500, 1, 4)), NoTail),
                      character.player_id, now),
               character, i + 1, count, now)

\* the fire block on the character found, by its weapon: the state left, the
\* new last_projectile_instant, and whether the thread goes on (the
\* assertion of register_kill held)
FireWeapon(gs, character, c, now) ==
    LET weapon == character.role.weapon
        idle == [gs |-> gs, last |-> c.last_projectile_instant, ok |-> TRUE]
        due == now - c.last_projectile_instant > weapon.fire_interval
        shot(kind, tail) ==
            [gs |-> Create(gs, CreateInfo(character.pos, character.rot,
                                          Projectile(kind), tail),
                           character.player_id, now),
             last |-> now, ok |-> TRUE]
    IN  CASE weapon.name = "BallGun" ->
                IF due
                THEN shot(Ball(weapon.life_duration, weapon.owner_invincibility_duration,
                               weapon.velocity, weapon.projectile_health, weapon.radius),
                          NoTail)
                ELSE idle
          [] weapon.name = "RayGun" ->
                IF due
                THEN shot(Ray(weapon.life_duration, weapon.owner_invincibility_duration,
                              weapon.tail_freeze_duration, weapon.velocity,
                              weapon.projectile_health),
                          SomeTail(character.pos, character.rot))
                ELSE idle
          [] weapon.name = "Shield" ->
                IF now - c.left_mouse_pressed_instant > weapon.self_destruct_timeout
                THEN LET r == RegisterKill(gs, character.id)
                     IN  IF r.ok
                         THEN [gs |-> Burst(r.gs, character, 0, MaxBurst, now),
                               last |-> c.last_projectile_instant, ok |-> TRUE]
                         ELSE [gs |-> gs, last |-> c.last_projectile_instant, ok |-> FALSE]
                ELSE idle
          [] weapon.name = "MineGun" ->
                IF due
                THEN shot(Mine(weapon.life_duration, weapon.owner_invincibility_duration,
                               weapon.activation_duration, weapon.start_velocity,
                               weapon.acceleration, weapon.radius, weapon.detection_radius,
                               weapon.explosion_radius, weapon.debris_kind,
                               weapon.debris_count),
                          NoTail)
                ELSE idle

\* the second loop: the iterator of this round has no further package, the
\* fire block follows
FireWithin(p, max_ids) ==
    /\ conn[p].pc = "recv"
    /\ LET c == conn[p]
           i == FindCharacterByPlayerId(game_state.entities, p)
       IN  IF c.left_mouse_pressed /\ clock - c.last_projectile_instant > Millis(1000 \div 10)
           THEN IF poisoned
                THEN /\ conn' = [conn EXCEPT ![p] = Panicked]
                     /\ UNCHANGED <<game_state, poisoned>>
                ELSE IF i # 0
                THEN LET r == FireWeapon(game_state, game_state.entities[i], c, clock)
                     IN  /\ r.gs.next_entity_id <= max_ids
                         /\ game_state' = r.gs
                         /\ poisoned' = ~r.ok
                         /\ conn' = [conn EXCEPT ![p] =
                                       IF r.ok
                                       THEN [@ EXCEPT !.pc = "kill",
                                                      !.last_projectile_instant = r.last]
                                       ELSE Panicked]
                ELSE /\ conn' = [conn EXCEPT ![p].pc = "kill"]
                     /\ UNCHANGED <<game_state, poisoned>>
           ELSE /\ conn' = [conn EXCEPT ![p].pc = "kill"]
                /\ UNCHANGED <<game_state, poisoned>>
    /\ UNCHANGED <<clock, tick, sent, packages_read>>

\* the fire block while ids up to MaxIds are given out
Fire(p) == FireWithin(p, MaxIds)

\* a mutant of Kill: the account_kill block does not write Kill
KillUnnotified(p) ==
    /\ conn[p].pc = "kill"
    /\ IF poisoned
       THEN /\ conn' = [conn EXCEPT ![p] = Panicked]
            /\ UNCHANGED <<game_state, sent>>
       ELSE LET r == AccountKill(game_state, p)
            IN  /\ game_state' = r.gs
                /\ IF r.ret
                   THEN /\ conn' = [conn EXCEPT ![p] = [@ EXCEPT !.pc = "bcast",
                                                                !.killed = TRUE,
                                                                !.left_mouse_pressed = FALSE]]
                        /\ UNCHANGED sent
                   ELSE /\ conn' = [conn EXCEPT ![p].pc = "bcast"]
                        /\ UNCHANGED sent
    /\ UNCHANGED <<poisoned, clock, tick, packages_read>>

\* the second loop: the account_kill block
Kill(p) ==
    /\ conn[p].pc = "kill"
    /\ IF poisoned
       THEN /\ conn' = [conn EXCEPT ![p] = Panicked]
            /\ UNCHANGED <<game_state, sent>>
       ELSE LET r == AccountKill(game_state, p)
            IN  /\ game_state' = r.gs
                /\ IF r.ret
                   THEN /\ conn' = [conn EXCEPT ![p] = [@ EXCEPT !.pc = "bcast",
                                                                !.killed = TRUE,
                                                                !.left_mouse_pressed = FALSE]]
                        /\ sent' = [sent EXCEPT ![p] = Sent(@, "Kill")]
                   ELSE /\ conn' = [conn EXCEPT ![p].pc = "bcast"]
                        /\ UNCHANGED sent
    /\ UNCHANGED <<poisoned, clock, tick, packages_read>>

\* the second loop: the broadcast block, then sleep
Broadcast(p) ==
    /\ conn[p].pc = "bcast"
    /\ IF clock - conn[p].last_broadcust_instant > Millis(1000 \div 30)
       THEN IF poisoned
            THEN /\ conn' = [conn EXCEPT ![p] = Panicked]
                 /\ UNCHANGED sent
            ELSE /\ conn' = [conn EXCEPT ![p] = [@ EXCEPT !.pc = "top",
                                                         !.last_broadcust_instant = clock]]
                 /\ sent' = [sent EXCEPT ![p] = Sent(@, "Broadcast")]
       ELSE /\ conn' = [conn EXCEPT ![p].pc = "top"]
            /\ UNCHANGED sent
    /\ UNCHANGED <<game_state, poisoned, clock, tick, packages_read>>

ServerNext ==
    \/ \E d \in TimeJumps : Advance(d)
    \/ Tick
    \/ \E p \in Players : Accept(p)
    \/ \E p \in Players : \E package \in ClientPackages : Handshake(p, package)
    \/ \E p \in Players : LoopTop(p)
    \/ \E p \in Players : \E package \in ClientPackages : Recv(p, package)
    \/ \E p \in Players : Fire(p)
    \/ \E p \in Players : Kill(p)
    \/ \E p \in Players : Broadcast(p)

(***************************************************************************)
(* The server threads around a player holding the Shield.  Player 1 was    *)
(* killed (by the Balls 2, 3 and 4), asked for the Shield and got the      *)
(* character 5, which the Balls 6 and 7 have hit since; it pressed the     *)
(* mouse button two seconds ago.  Player 2 keeps firing its BallGun.       *)
(***************************************************************************)
ShieldCharacter ==
    [NewEntity(5, CreateInfo(40, 1, Character(CharacterWeaponFromPlayerWeapon("Shield")),
                             NoTail), 1, 0)
        EXCEPT !.health = 1]

ShieldInit ==
    /\ game_state =
          [entities |-> <<NewEntity(1, CreateInfo(40, 1,
                                       Character(CharacterWeaponFromPlayerWeapon("BallGun")),
                                       NoTail), 2, 0),
                          ShieldCharacter>>,
           next_entity_id |-> 8,
           kills |-> <<>>]
    /\ poisoned = FALSE
    /\ clock = 0
    /\ tick = [pc |-> "run", last_proceed_instant |-> 0, dead |-> FALSE, reach |-> 0]
    /\ conn = [p \in Players |->
                 [NewConn EXCEPT !.pc = "top", !.connected = TRUE,
                                 !.weapon = IF p = 1 THEN ShieldCharacter.role.weapon ELSE @,
                                 !.left_mouse_pressed = TRUE,
                                 !.left_mouse_pressed_instant = 0 - Secs(2),
                                 !.last_projectile_instant = 0 - Secs(2),
                                 !.last_sequence_number = 1]]
    /\ sent = [p \in Players |->
                 [first |-> "Init", Init |-> 1, Broadcast |-> 1,
                  Kill |-> IF p = 1 THEN 1 ELSE 0]]
    /\ packages_read = 0

\* the packages the clients write: the mouse button is held or released
ShieldPackages == {PlayerInput(1, 0, 1, l) : l \in BOOLEAN}

\* the packages of clients that only release the button
ReleasePackages == {PlayerInput(1, 0, 1, FALSE)}

ShieldNextOf(packages) ==
    \/ \E d \in TimeJumps : Advance(d)
    \/ TickWithin(MaxShieldIds)
    \/ \E p \in Players : LoopTop(p)
    \/ \E p \in Players : \E package \in packages : Recv(p, package)
    \/ \E p \in Players : FireWithin(p, MaxShieldIds)
    \/ \E p \in Players : Kill(p)
    \/ \E p \in Players : Broadcast(p)

ShieldNext == ShieldNextOf(ShieldPackages)

ShieldFairNext == ShieldNextOf(ReleasePackages)

\* the blocks of the loop of a connection thread after its read
ThreadStep(p) ==
    \/ LoopTop(p)
    \/ FireWithin(p, MaxShieldIds)
    \/ Kill(p)
    \/ Broadcast(p)

\* a connection thread that runs comes to the next block of its loop; nothing
\* is asked of the simulation thread, whose rounds no connection thread waits
\* for
ShieldFairness ==
    \A p \in Players :
        WF_vars(ThreadStep(p) /\ UNCHANGED <<packetVars, clientVars, calcVars>>)

(***************************************************************************)
(* The server threads with the steps of a round that take the mutex and    *)
(* the steps that use the socket told apart.  The Balls 2 and 3 of player  *)
(* 2 have hit the character 0 of player 1, which stands where the          *)
(* character 1 of player 2 stands; player 2 holds the button of its        *)
(* BallGun.  A read or a write of a stream may fail.                       *)
(***************************************************************************)
SessionInit ==
    /\ game_state =
          [entities |-> <<[NewEntity(0, CreateInfo(40, 1,
                                        Character(CharacterWeaponFromPlayerWeapon("BallGun")),
                                        NoTail), 1, 0 - Secs(2))
                             EXCEPT !.health = 1],
                          NewEntity(1, CreateInfo(40, 1,
                                       Character(CharacterWeaponFromPlayerWeapon("BallGun")),
                                       NoTail), 2, 0 - Secs(2))>>,
           next_entity_id |-> 4,
           kills |-> <<>>]
    /\ poisoned = FALSE
    /\ clock = 0
    /\ tick = [pc |-> "run", last_proceed_instant |-> 0, dead |-> FALSE, reach |-> 0]
    /\ conn = [p \in Players |->
                 [NewConn EXCEPT !.pc = "top", !.connected = TRUE,
                                 !.left_mouse_pressed = (p = 2),
                                 !.left_mouse_pressed_instant = 0 - Secs(1),
                                 !.last_projectile_instant = 0 - Secs(1),
                                 !.last_sequence_number = 1]]
    /\ sent = [p \in Players |->
                 [first |-> "Init", Init |-> 1, Broadcast |-> 1, Kill |-> 0]]
    /\ packages_read = 0

\* the packages the clients write: the button is pressed, a weapon is chosen
SessionPackages ==
    {PlayerInput(1, 0, 1, TRUE)} \cup {RespawnRequest(w) : w \in {"BallGun", "MineGun"}}

\* the connection thread is between two steps with a MutexGuard alive: the
\* temporary of game_state.lock().unwrap().clone() lives to the end of the
\* write_package statement
Holds(p) == conn[p].pc = "bwrite"

\* game_state.lock() returns at once
Unlocked == \A p \in Players : ~Holds(p)

\* a connection thread that returned an Err: its locals are gone
Stopped == [NewConn EXCEPT !.pc = "stopped"]

\* the package makes the second loop take the mutex
RecvLocks(p, package) ==
    \/ package.type = "PlayerInput"
    \/ package.type = "RespawnRequest" /\ conn[p].killed

\* the fire block takes the mutex
FireLocks(p) ==
    /\ conn[p].left_mouse_pressed
    /\ clock - conn[p].last_projectile_instant > Millis(1000 \div 10)

\* reader.read(&mut stream)? returns an error that is not WouldBlock
ReadFails(p) ==
    /\ conn[p].pc = "top"
    /\ conn' = [conn EXCEPT ![p] = Stopped]
    /\ UNCHANGED <<game_state, poisoned, clock, tick, sent, packages_read>>

\* the account_kill block up to drop(game_state)
KillAccount(p) ==
    /\ conn[p].pc = "kill"
    /\ Unlocked
    /\ IF poisoned
       THEN /\ conn' = [conn EXCEPT ![p] = Panicked]
            /\ UNCHANGED game_state
       ELSE LET r == AccountKill(game_state, p)
            IN  /\ game_state' = r.gs
                /\ conn' = [conn EXCEPT ![p] =
                              IF r.ret
                              THEN [@ EXCEPT !.pc = "kwrite", !.killed = TRUE,
                                             !.left_mouse_pressed = FALSE]
                              ELSE [@ EXCEPT !.pc = "bcast"]]
    /\ UNCHANGED <<poisoned, clock, tick, sent, packages_read>>

\* the account_kill block: write_package of Kill returns Ok
KillWrite(p) ==
    /\ conn[p].pc = "kwrite"
    /\ conn' = [conn EXCEPT ![p].pc = "bcast"]
    /\ sent' = [sent EXCEPT ![p] = Sent(@, "Kill")]
    /\ UNCHANGED <<game_state, poisoned, clock, tick, packages_read>>

\* the account_kill block: write_package of Kill returns an error
KillWriteFails(p) ==
    /\ conn[p].pc = "kwrite"
    /\ conn' = [conn EXCEPT ![p] = Stopped]
    /\ UNCHANGED <<game_state, poisoned, clock, tick, sent, packages_read>>

\* the broadcast block up to the call of write_package: the argument
\* game_state.lock().unwrap().clone() is evaluated
BroadcastLock(p) ==
    /\ conn[p].pc = "bcast"
    /\ IF clock - conn[p].last_broadcust_instant > Millis(1000 \div 30)
       THEN /\ Unlocked
            /\ conn' = [conn EXCEPT ![p] =
                          IF poisoned THEN Panicked ELSE [@ EXCEPT !.pc = "bwrite"]]
       ELSE conn' = [conn EXCEPT ![p].pc = "top"]
    /\ UNCHANGED <<game_state, poisoned, clock, tick, sent, packages_read>>

\* the broadcast block: write_package of Broadcast returns Ok, the statement
\* ends and the guard is dropped; then sleep
BroadcastWrite(p) ==
    /\ conn[p].pc = "bwrite"
    /\ conn' = [conn EXCEPT ![p] = [@ EXCEPT !.pc = "top",
                                             !.last_broadcust_instant = clock]]
    /\ sent' = [sent EXCEPT ![p] = Sent(@, "Broadcast")]
    /\ UNCHANGED <<game_state, poisoned, clock, tick, packages_read>>

\* a mutant of BroadcastWriteFails: the error is a panic, which poisons the
\* mutex of the guard
BroadcastWriteFailsPanics(p) ==
    /\ conn[p].pc = "bwrite"
    /\ conn' = [conn EXCEPT ![p] = Panicked]
    /\ poisoned' = TRUE
    /\ UNCHANGED <<game_state, clock, tick, sent, packages_read>>

\* the broadcast block: write_package of Broadcast returns an error, the
\* thread returns and the guard is dropped
BroadcastWriteFails(p) ==
    /\ conn[p].pc = "bwrite"
    /\ conn' = [conn EXCEPT ![p] = Stopped]
    /\ UNCHANGED <<game_state, poisoned, clock, tick, sent, packages_read>>

\* the simulation thread once it has the mutex
SessionTick == Unlocked /\ Tick

\* the second loop on a package, once it has the mutex if the package needs it
SessionRecv(p, package) == (RecvLocks(p, package) => Unlocked) /\ Recv(p, package)

\* the fire block, once it has the mutex if it needs it
SessionFire(p) == (FireLocks(p) => Unlocked) /\ Fire(p)

SessionNext ==
    \/ \E d \in TimeJumps : Advance(d)
    \/ SessionTick
    \/ \E p \in Players : LoopTop(p)
    \/ \E p \in Players : ReadFails(p)
    \/ \E p \in Players : \E package \in SessionPackages : SessionRecv(p, package)
    \/ \E p \in Players : SessionFire(p)
    \/ \E p \in Players : KillAccount(p)
    \/ \E p \in Players : KillWrite(p)
    \/ \E p \in Players : KillWriteFails(p)
    \/ \E p \in Players : BroadcastLock(p)
    \/ \E p \in Players : BroadcastWrite(p)
    \/ \E p \in Players : BroadcastWriteFails(p)

(***************************************************************************)
(* The world under the calls of the server.  The simulation thread calls   *)
(* proceed; a connection thread handles its packages, runs its fire block  *)
(* and its account_kill block, each under the lock.  The locals that gate  *)
(* the fire block (left_mouse_pressed and the instants) are inputs here,   *)
(* so a block may run at any time after the handshake.                     *)
(***************************************************************************)
\* an instant so far back that fire_interval and self_destruct_timeout have
\* passed
LongAgo == 0 - Secs(1000)

\* what the damage loops of proceed push to kills
Queued(gs, now, dt) ==
    LET kills == Damaged(gs, now, dt).kills
    IN  SubSeq(kills, Len(gs.kills) + 1, Len(kills))

\* a connection thread starts and reads PlayerConnected first
GameConnect(p, pos) ==
    /\ conn[p].pc = "idle"
    /\ \A q \in Players : q < p => conn[q].pc # "idle"
    /\ packages_read < MaxPackages
    /\ game_state.next_entity_id < MaxIds
    /\ packages_read' = packages_read + 1
    /\ IF poisoned
       THEN /\ conn' = [conn EXCEPT ![p] = Panicked]
            /\ UNCHANGED game_state
       ELSE /\ game_state' = Spawn(game_state, p, "BallGun", pos, clock)
            /\ conn' = [conn EXCEPT ![p] = [@ EXCEPT !.pc = "top", !.connected = TRUE]]
    /\ UNCHANGED <<poisoned, clock, tick, sent>>

\* a PlayerInput is handled
GameInput(p, package) ==
    /\ conn[p].pc = "top"
    /\ package.type = "PlayerInput"
    /\ packages_read < MaxPackages
    /\ packages_read' = packages_read + 1
    /\ LET i == FindCharacterByPlayerId(game_state.entities, p)
       IN  IF poisoned
           THEN /\ conn' = [conn EXCEPT ![p] = Panicked]
                /\ UNCHANGED game_state
           ELSE /\ game_state' = IF i # 0
                                 THEN [game_state EXCEPT
                                          !.entities[i] = MoveCharacter(@, package)]
                                 ELSE game_state
                /\ UNCHANGED conn
    /\ UNCHANGED <<poisoned, clock, tick, sent>>

\* a RespawnRequest of a killed player is handled
GameRespawn(p, weapon, pos) ==
    /\ conn[p].pc = "top"
    /\ conn[p].killed
    /\ packages_read < MaxPackages
    /\ game_state.next_entity_id < MaxIds
    /\ packages_read' = packages_read + 1
    /\ IF poisoned
       THEN /\ conn' = [conn EXCEPT ![p] = Panicked]
            /\ UNCHANGED game_state
       ELSE /\ game_state' = Spawn(game_state, p, weapon, pos, clock)
            /\ conn' = [conn EXCEPT ![p] =
                           [@ EXCEPT !.killed = FALSE,
                                     !.weapon = CharacterWeaponFromPlayerWeapon(weapon)]]
    /\ UNCHANGED <<poisoned, clock, tick, sent>>

\* the projectiles in the world
Projectiles(es) == {i \in 1..Len(es) : IsProjectile(es[i])}

\* the fire block with its gates open, while ids up to max_ids are given out
GameFireWithin(p, max_ids) ==
    /\ conn[p].pc = "top"
    /\ Cardinality(Projectiles(game_state.entities)) < MaxProjectiles
    /\ LET i == FindCharacterByPlayerId(game_state.entities, p)
           c == [conn[p] EXCEPT !.left_mouse_pressed = TRUE,
                                !.left_mouse_pressed_instant = LongAgo,
                                !.last_projectile_instant = LongAgo]
       IN  IF poisoned
           THEN /\ conn' = [conn EXCEPT ![p] = Panicked]
                /\ UNCHANGED <<game_state, poisoned>>
           ELSE IF i # 0
           THEN LET r == FireWeapon(game_state, game_state.entities[i], c, clock)
                IN  /\ r.gs.next_entity_id <= max_ids
                    /\ game_state' = r.gs
                    /\ poisoned' = ~r.ok
                    /\ conn' = IF r.ok THEN conn ELSE [conn EXCEPT ![p] = Panicked]
           ELSE UNCHANGED <<game_state, poisoned, conn>>
    /\ UNCHANGED <<clock, tick, sent, packages_read>>

\* the fire block with its gates open
GameFire(p) == GameFireWithin(p, MaxIds)

\* the account_kill block
GameKill(p) ==
    /\ conn[p].pc = "top"
    /\ IF poisoned
       THEN /\ conn' = [conn EXCEPT ![p] = Panicked]
            /\ UNCHANGED game_state
       ELSE LET r == AccountKill(game_state, p)
            IN  /\ game_state' = r.gs
                /\ conn' = [conn EXCEPT ![p].killed = @ \/ r.ret]
    /\ UNCHANGED <<poisoned, clock, tick, sent, packages_read>>

GameNext ==
    \/ \E d \in TimeJumps : Advance(d)
    \/ Tick
    \/ \E p \in Players : \E pos \in SpawnPoints : GameConnect(p, pos)
    \/ \E p \in Players : \E package \in ClientPackages : GameInput(p, package)
    \/ \E p \in Players : \E weapon \in PlayerWeapons : \E pos \in SpawnPoints :
           GameRespawn(p, weapon, pos)
    \/ \E p \in Players : GameFire(p)
    \/ \E p \in Players : GameKill(p)


(***************************************************************************)
(* A world with a projectile in flight.  Player 1 was killed (by the Balls *)
(* 2, 3 and 4), chose its weapon and got the character 5; of what it has   *)
(* fired since (6, 7, 8, a mine giving two debris mines) the projectile 8  *)
(* is left.  Its character and the character 1 of player 2 stand at some   *)
(* distance from where the projectile is now.  Only time and the           *)
(* simulation thread move.                                                 *)
(***************************************************************************)
\* the projectile kinds the fire block creates, and the mine that is the
\* debris of a mine
FlightKinds ==
    LET gun == CharacterWeaponFromPlayerWeapon("BallGun")
        pulse == CharacterWeaponFromPlayerWeapon("PulseGun")
        mines == CharacterWeaponFromPlayerWeapon("MineGun")
    IN  {Ball(gun.life_duration, gun.owner_invincibility_duration, gun.velocity,
              gun.projectile_health, gun.radius),
         Ray(pulse.life_duration, pulse.owner_invincibility_duration,
             pulse.tail_freeze_duration, pulse.velocity, pulse.projectile_health),
         Mine(mines.life_duration, mines.owner_invincibility_duration,
              mines.activation_duration, mines.start_velocity, mines.acceleration,
              mines.radius, mines.detection_radius, mines.explosion_radius,
              mines.debris_kind, mines.debris_count),
         mines.debris_kind}

\* the time since the projectile was created, in clock steps
FlightAges == {0, 2, 5, 9, 19, 48}

\* where the projectile is: the middle of the world
FlightPos == WorldBounds.x + WorldBounds.w \div 2

\* how far to the right of the projectile a character stands
FlightDistances == {0, 60, 160, 300}

\* the projectile as proceed has left it at instant 0 when it ran every
\* 100 ms since the projectile was created: a Ray trails its tail, a Mine
\* has lost velocity and has its flag
InFlight(id, kind, rot, age) ==
    LET tail == IF kind.name = "Ray"
                THEN SomeTail(FlightPos - rot * Travel(kind.velocity,
                                                       Min(age, kind.tail_freeze_duration)),
                              rot)
                ELSE NoTail
        e == NewEntity(id, CreateInfo(FlightPos, rot, Projectile(kind), tail), 1, 0 - age)
    IN  IF kind.name = "Mine"
        THEN [e EXCEPT !.activated = age > kind.activation_duration,
                       !.role.kind.velocity = @ + (kind.acceleration * age) \div 10]
        ELSE e

FlightInit ==
    /\ \E kind \in FlightKinds : \E rot \in {1, -1} : \E age \in FlightAges :
       \E d1, d2 \in FlightDistances :
          /\ age < kind.life_duration
          /\ game_state =
                [entities |->
                    <<NewEntity(1, CreateInfo(FlightPos + d2, 1,
                                              Character(CharacterWeaponFromPlayerWeapon("BallGun")),
                                              NoTail), 2, 0 - Secs(60)),
                      NewEntity(5, CreateInfo(FlightPos + d1, 1,
                                              Character(CharacterWeaponFromPlayerWeapon(
                                                  IF kind.name = "Mine" THEN "MineGun"
                                                  ELSE IF kind.name = "Ray" THEN "PulseGun"
                                                  ELSE "BallGun")),
                                              NoTail), 1, 0 - Secs(50)),
                      InFlight(8, kind, rot, age)>>,
                 next_entity_id |-> 9,
                 kills |-> <<>>]
    /\ poisoned = FALSE
    /\ clock = 0
    /\ tick = [pc |-> "run", last_proceed_instant |-> 0, dead |-> FALSE, reach |-> 0]
    /\ conn = [p \in Players |->
                 [NewConn EXCEPT !.pc = "top", !.connected = TRUE,
                                 !.weapon = IF p = 1 THEN game_state.entities[2].role.weapon
                                            ELSE @,
                                 !.last_sequence_number = 1]]
    /\ sent = [p \in Players |->
                 [first |-> "Init", Init |-> 1, Broadcast |-> 1,
                  Kill |-> IF p = 1 THEN 1 ELSE 0]]
    /\ packages_read = 0

\* the clock moves on by one of these numbers of steps between two rounds of
\* the simulation thread
FlightJumps == {1, 3}

\* time passes
Elapse(d) ==
    /\ clock + d <= MaxFlightClock
    /\ clock' = clock + d
    /\ UNCHANGED <<game_state, poisoned, tick, conn, sent, packages_read>>

FlightNext ==
    \/ \E d \in FlightJumps : Elapse(d)
    \/ TickWithin(MaxFlightIds)

(***************************************************************************)
(* A world with a projectile in flight where the players fire.  Player 2   *)
(* was killed and chose a weapon that fires rays; the fire blocks of the   *)
(* connection threads run beside the simulation thread.                    *)
(***************************************************************************)
\* the weapons that fire rays
RayWeapons == {"PulseGun", "RayGun"}

\* the time since the projectile was created, in clock steps
ArmedAges == {2, 19}

\* how far to the right of the projectile a character stands
ArmedDistances == {0, 160}

ArmedInit ==
    /\ \E kind \in FlightKinds : \E rot \in {1, -1} : \E age \in ArmedAges :
       \E d1, d2 \in ArmedDistances : \E weapon2 \in RayWeapons :
          /\ age < kind.life_duration
          /\ game_state =
                [entities |->
                    <<NewEntity(4, CreateInfo(FlightPos + d2, 1,
                                              Character(CharacterWeaponFromPlayerWeapon(weapon2)),
                                              NoTail), 2, 0 - Secs(60)),
                      NewEntity(5, CreateInfo(FlightPos + d1, 1,
                                              Character(CharacterWeaponFromPlayerWeapon(
                                                  IF kind.name = "Mine" THEN "MineGun"
                                                  ELSE IF kind.name = "Ray" THEN "PulseGun"
                                                  ELSE "BallGun")),
                                              NoTail), 1, 0 - Secs(50)),
                      InFlight(8, kind, rot, age)>>,
                 next_entity_id |-> 9,
                 kills |-> <<>>]
    /\ poisoned = FALSE
    /\ clock = 0
    /\ tick = [pc |-> "run", last_proceed_instant |-> 0, dead |-> FALSE, reach |-> 0]
    /\ conn = [p \in Players |->
                 [NewConn EXCEPT !.pc = "top", !.connected = TRUE,
                                 !.weapon = game_state.entities[3 - p].role.weapon,
                                 !.last_sequence_number = 1]]
    /\ sent = [p \in Players |->
                 [first |-> "Init", Init |-> 1, Broadcast |-> 1, Kill |-> 1]]
    /\ packages_read = 0

ArmedNext ==
    \/ \E d \in FlightJumps : Elapse(d)
    \/ TickWithin(MaxFlightIds)
    \/ \E p \in Players : GameFireWithin(p, MaxFlightIds)

(***************************************************************************)
(* A world with a projectile in flight near a shield.  Both players were   *)
(* killed and chose their weapons: player 2 has the character 4, which     *)
(* holds the Shield or the BallGun, player 1 the character 5, and of what  *)
(* player 1 has fired since (6, 7, 8) the projectile 8 is left.  Only time *)
(* and the simulation thread move.                                         *)
(***************************************************************************)
\* how far to the right of the projectile the character of player 1 stands
PhaseDistances == {0, 160}

PhaseInit ==
    /\ \E kind \in FlightKinds : \E rot, rot2 \in {1, -1} : \E age \in FlightAges :
       \E d1 \in PhaseDistances : \E d2 \in FlightDistances :
       \E weapon2 \in {"Shield", "BallGun"} :
          /\ age < kind.life_duration
          /\ game_state =
                [entities |->
                    <<NewEntity(4, CreateInfo(FlightPos + d2, rot2,
                                              Character(CharacterWeaponFromPlayerWeapon(weapon2)),
                                              NoTail), 2, 0 - Secs(60)),
                      NewEntity(5, CreateInfo(FlightPos + d1, 1,
                                              Character(CharacterWeaponFromPlayerWeapon(
                                                  IF kind.name = "Mine" THEN "MineGun"
                                                  ELSE IF kind.name = "Ray" THEN "PulseGun"
                                                  ELSE "BallGun")),
                                              NoTail), 1, 0 - Secs(50)),
                      InFlight(8, kind, rot, age)>>,
                 next_entity_id |-> 9,
                 kills |-> <<>>]
    /\ poisoned = FALSE
    /\ clock = 0
    /\ tick = [pc |-> "run", last_proceed_instant |-> 0, dead |-> FALSE, reach |-> 0]
    /\ conn = [p \in Players |->
                 [NewConn EXCEPT !.pc = "top", !.connected = TRUE,
                                 !.weapon = game_state.entities[3 - p].role.weapon,
                                 !.last_sequence_number = 1]]
    /\ sent = [p \in Players |->
                 [first |-> "Init", Init |-> 1, Broadcast |-> 1, Kill |-> 1]]
    /\ packages_read = 0

(***************************************************************************)
(* A world with a projectile near the end of its life.  Player 1 was       *)
(* killed, got the character 5 and has fired one projectile since, which   *)
(* proceed has advanced every 100 ms; for a debris mine, the mine 6 has    *)
(* detonated, and of its debris 7 and 8 (and the Rays 9 and 10 of the      *)
(* mine 7) the mine 8 is left.  Only time and the simulation thread move.  *)
(***************************************************************************)
\* the projectile kinds of the fire block (BallGun, PulseGun, RayGun,
\* MineGun) and the debris mine
ExpiryKinds ==
    LET rays == CharacterWeaponFromPlayerWeapon("RayGun")
    IN  FlightKinds
        \cup {Ray(rays.life_duration, rays.owner_invincibility_duration,
                  rays.tail_freeze_duration, rays.velocity, rays.projectile_health)}

\* how long before the end of life_duration the world is looked at, in
\* clock steps
ExpiryMargins == {1, 2, 3}

\* the ages of the projectile at instant 0: shortly before life_duration,
\* and for a Ray also when it is new, when its tail is about to be released
\* and shortly before life_duration + tail_freeze_duration
ExpiryAges(kind) ==
    {kind.life_duration - k : k \in ExpiryMargins}
    \cup (IF kind.name = "Ray"
          THEN {0, kind.tail_freeze_duration}
               \cup {kind.life_duration + kind.tail_freeze_duration - k : k \in ExpiryMargins}
          ELSE {})

RECURSIVE Flown(_, _, _)
\* the projectile e after the proceed calls k to n since its birth, one
\* every clock step, with no shield in the world; the first half of the
\* calls is worked out before the second
Flown(e, k, n) ==
    IF k > n THEN e
    ELSE IF k = n THEN AdvanceEntity(e, e.birth_instant + k, 1, <<>>).e
    ELSE LET half == Flown(e, k, (k + n) \div 2)
         IN  IF half.id = e.id THEN Flown(half, (k + n) \div 2 + 1, n) ELSE e

\* the projectile as the fire block (or the detonation) created it at
\* FlightPos age clock steps ago and as the proceed calls since have left it
Aged(id, kind, rot, age) ==
    LET tail == IF kind.name = "Ray" THEN SomeTail(FlightPos, rot) ELSE NoTail
    IN  Flown(NewEntity(id, CreateInfo(FlightPos, rot, Projectile(kind), tail), 1, 0 - age),
              1, age)

\* how far from the projectile a character stands
ExpiryDistances == {0, 20, 300}

\* the position at distance d of x at which the vertices of a character are
\* inside the world bounds
Standing(x, d) ==
    Max(WorldBounds.x + CharacterRadius,
        Min(WorldBounds.x + WorldBounds.w - CharacterRadius, x + d))

ExpiryInit ==
    /\ \E kind \in ExpiryKinds : \E rot \in {1, -1} : \E age \in ExpiryAges(kind) :
       \E d1, d2 \in ExpiryDistances :
          LET debris == kind = CharacterWeaponFromPlayerWeapon("MineGun").debris_kind
              p == Aged(IF debris THEN 8 ELSE 6, kind, rot, age)
          IN  game_state =
                [entities |->
                    <<NewEntity(1, CreateInfo(Standing(p.pos, d2), 1,
                                              Character(CharacterWeaponFromPlayerWeapon("BallGun")),
                                              NoTail), 2, 0 - Secs(120)),
                      NewEntity(5, CreateInfo(Standing(p.pos, 0 - d1), 1,
                                              Character(CharacterWeaponFromPlayerWeapon(
                                                  IF kind.name = "Mine" THEN "MineGun"
                                                  ELSE IF kind.name = "Ball" THEN "BallGun"
                                                  ELSE IF kind.velocity = 1000 THEN "PulseGun"
                                                  ELSE "RayGun")),
                                              NoTail), 1, 0 - Secs(110)),
                      p>>,
                 next_entity_id |-> IF debris THEN 11 ELSE 7,
                 kills |-> <<>>]
    /\ poisoned = FALSE
    /\ clock = 0
    /\ tick = [pc |-> "run", last_proceed_instant |-> 0, dead |-> FALSE, reach |-> 0]
    /\ conn = [p \in Players |->
                 [NewConn EXCEPT !.pc = "top", !.connected = TRUE,
                                 !.weapon = IF p = 1 THEN game_state.entities[2].role.weapon
                                            ELSE @,
                                 !.last_sequence_number = 1]]
    /\ sent = [p \in Players |->
                 [first |-> "Init", Init |-> 1, Broadcast |-> 1,
                  Kill |-> IF p = 1 THEN 1 ELSE 0]]
    /\ packages_read = 0

(***************************************************************************)
(* The client: client/client.rs, and its streams to the server.            *)
(***************************************************************************)
\* ServerToClientPackage; game_state of a Broadcast is the entity list
InitPackage(player_id) == [type |-> "Init", player_id |-> player_id]
BroadcastPackage(sequence_number, gs) ==
    [type |-> "Broadcast", sequence_number |-> sequence_number,
     game_state |-> gs.entities]
KillPackage == [type |-> "Kill"]

\* Networker::connect and GameStateQueue::new
NewClient ==
    [player_id |-> 0, prediction |-> <<>>, last_received |-> <<>>,
     penultimate_received |-> <<>>,
     last_sequence_number |-> 0, inits |-> 0, connects |-> 0, first |-> "none",
     killed |-> FALSE]

ClientInit ==
    /\ client = [p \in Players |-> NewClient]
    /\ to_server = [p \in Players |-> <<>>]
    /\ to_client = [p \in Players |-> <<>>]

\* the velocity of the input block, and movement.x by the keys held
Velocity == 5
ClientMovements == {0 - Velocity, 0, Velocity}

\* GameState::find_by_player_id_mut, as the client calls
\* find_character_by_player_id_mut: the index of the character of the
\* player, 0 for None
FindByPlayerId(es, player_id) == FindCharacterByPlayerId(es, player_id)

\* GameState::add_or_replace_by_player_id, as the client calls
\* add_or_replace_character_by_player_id
AddOrReplaceByPlayerId(es, player_id, e) ==
    LET i == FindByPlayerId(es, player_id)
    IN  IF i # 0 THEN [es EXCEPT ![i] = e] ELSE Append(es, e)

RECURSIVE FindByIdFrom(_, _, _)
FindByIdFrom(es, id, i) ==
    IF i > Len(es) THEN 0
    ELSE IF es[i].id = id THEN i
    ELSE FindByIdFrom(es, id, i + 1)

\* GameState::find_by_id_mut
FindById(es, id) == FindByIdFrom(es, id, 1)

\* GameState::add_or_replace_by_id
AddOrReplaceById(es, id, e) ==
    LET i == FindById(es, id)
    IN  IF i # 0 THEN [es EXCEPT ![i] = e] ELSE Append(es, e)

\* the interpolation value t is counted in tenths
TScale == 10
\* Networker::interpolation_value: the values of t a frame may compute
InterpolationValues == {0, 5, 10}

\* lerp_f32: a * (1 - t) + b * t
LerpF32(a, b, t) == (a * (TScale - t) + b * t) \div TScale

\* Entity::lerp: pos and rot are interpolated (Point::lerp, Complex::lerp),
\* every other field is the one of b
EntityLerp(a, b, t) ==
    [b EXCEPT !.pos = LerpF32(a.pos, b.pos, t), !.rot = LerpF32(a.rot, b.rot, t)]

\* a mutant of LerpMergeEntity: an entity found in a is interpolated the
\* other way round
LerpMergeEntitySwapped(a, e, t) ==
    LET i == FindById(a, e.id)
    IN  IF i # 0 THEN EntityLerp(e, a[i], t) ELSE e

\* GameState::lerp_merge, the entity put into result for the entity e of b
LerpMergeEntity(a, e, t) ==
    LET i == FindById(a, e.id)
    IN  IF i # 0 THEN EntityLerp(a[i], e, t) ELSE e

RECURSIVE LerpMergeFromAll(_, _, _, _, _, _)
\* a mutant of LerpMergeFrom: the entities of the player are not skipped
LerpMergeFromAll(result, a, b, i, t, ignore_with_player_id) ==
    IF i > Len(b) THEN result
    ELSE LerpMergeFromAll(AddOrReplaceById(result, b[i].id, LerpMergeEntity(a, b[i], t)),
                          a, b, i + 1, t, ignore_with_player_id)

RECURSIVE LerpMergeFrom(_, _, _, _, _, _)
LerpMergeFrom(result, a, b, i, t, ignore_with_player_id) ==
    IF i > Len(b) THEN result
    ELSE IF b[i].player_id = ignore_with_player_id
    THEN LerpMergeFrom(result, a, b, i + 1, t, ignore_with_player_id)
    ELSE LerpMergeFrom(AddOrReplaceById(result, b[i].id, LerpMergeEntity(a, b[i], t)),
                       a, b, i + 1, t, ignore_with_player_id)

\* GameState::lerp_merge
LerpMerge(result, a, b, t, ignore_with_player_id) ==
    LerpMergeFrom(result, a, b, 1, t, ignore_with_player_id)

\* the first package a client has written
First(c, type) == IF c.first = "none" THEN type ELSE c.first

\* a mutant of ClientInput: PlayerInput is written whenever a key is held
ClientInputUnguarded(c, movement) ==
    IF movement # 0
    THEN [c |-> [c EXCEPT !.last_sequence_number = @ + 1,
                          !.first = First(c, "PlayerInput")],
          out |-> <<PlayerInput(c.last_sequence_number + 1, movement, 1, FALSE)>>]
    ELSE [c |-> c, out |-> <<>>]

\* exec_client, the input block of a frame: the client after it and the
\* packages written.  The package of this client carries sequence_number and
\* movement: its character keeps facing right and its mouse is not pressed
ClientInput(c, movement) ==
    LET i == IF c.player_id = 0 THEN 0 ELSE FindByPlayerId(c.prediction, c.player_id)
    IN  IF i # 0 /\ movement # 0
        THEN [c |-> [c EXCEPT !.prediction[i].pos = @ + movement,
                              !.last_sequence_number = @ + 1,
                              !.first = First(c, "PlayerInput")],
              out |-> <<PlayerInput(c.last_sequence_number + 1, movement, 1, FALSE)>>]
        ELSE [c |-> c, out |-> <<>>]

\* a mutant of OnInit: the client keeps the player_id and writes nothing
OnInitSilent(n, package) ==
    [c |-> [n.c EXCEPT !.player_id = package.player_id, !.inits = Min(@ + 1, 2)],
     out |-> n.out]

\* Networker::proceed, ServerToClientPackage::Init
OnInit(n, package) ==
    [c |-> [n.c EXCEPT !.player_id = package.player_id,
                       !.inits = Min(@ + 1, 2),
                       !.connects = Min(@ + 1, 2),
                       !.first = First(n.c, "PlayerConnected")],
     out |-> Append(n.out, PlayerConnected)]

\* a mutant of OnBroadcast: the prediction is always the game state received
OnBroadcastUnspliced(n, package, last_sequence_number) ==
    [c |-> [n.c EXCEPT !.penultimate_received = n.c.last_received,
                       !.last_received = package.game_state,
                       !.prediction = package.game_state],
     out |-> n.out]

\* a mutant of OnBroadcast: penultimate_received is the game state received
OnBroadcastUnshifted(n, package, last_sequence_number) ==
    LET c == n.c
        copy == IF c.player_id = 0 THEN 0 ELSE FindByPlayerId(c.prediction, c.player_id)
        fresh == package.game_state
    IN  [c |-> [c EXCEPT
                  !.penultimate_received = fresh,
                  !.last_received = fresh,
                  !.prediction =
                      IF package.sequence_number < last_sequence_number /\ copy # 0
                      THEN AddOrReplaceByPlayerId(fresh, c.player_id, c.prediction[copy])
                      ELSE fresh],
         out |-> n.out]

\* Networker::proceed, ServerToClientPackage::Broadcast
OnBroadcast(n, package, last_sequence_number) ==
    LET c == n.c
        copy == IF c.player_id = 0 THEN 0 ELSE FindByPlayerId(c.prediction, c.player_id)
        fresh == package.game_state
    IN  [c |-> [c EXCEPT
                  !.penultimate_received = c.last_received,
                  !.last_received = fresh,
                  !.prediction =
                      IF package.sequence_number < last_sequence_number /\ copy # 0
                      THEN AddOrReplaceByPlayerId(fresh, c.player_id, c.prediction[copy])
                      ELSE fresh],
         out |-> n.out]

RECURSIVE OnPackages(_, _, _)
\* Networker::proceed, the loop over the packages read.  The match of this
\* client has no arm for Kill: the package changes nothing; killed is the
\* history of a Kill read
OnPackages(n, packages, last_sequence_number) ==
    IF packages = <<>> THEN n
    ELSE LET package == Head(packages)
             m == CASE package.type = "Init" -> OnInit(n, package)
                    [] package.type = "Broadcast" ->
                           OnBroadcast(n, package, last_sequence_number)
                    [] package.type = "Kill" -> [n EXCEPT !.c.killed = TRUE]
         IN  OnPackages(m, Tail(packages), last_sequence_number)

\* Networker::proceed on the packages read, t the interpolation value
NetworkerProceed(n, packages, last_sequence_number, t) ==
    LET m == OnPackages(n, packages, last_sequence_number)
    IN  IF m.c.player_id # 0
        THEN [m EXCEPT !.c.prediction =
                          LerpMerge(@, m.c.penultimate_received, m.c.last_received, t,
                                    m.c.player_id)]
        ELSE m

\* exec_client, one frame of 'running: the input block by the keys held,
\* then networker.proceed on the packages of the stream
ClientFrameWithin(p, movement, t, max_seq) ==
    /\ movement # 0 => client[p].last_sequence_number < max_seq
    /\ LET i == ClientInput(client[p], movement)
           n == NetworkerProceed(i, to_client[p], i.c.last_sequence_number, t)
       IN  /\ client' = [client EXCEPT ![p] = n.c]
           /\ to_server' = [to_server EXCEPT ![p] = @ \o n.out]
           /\ to_client' = [to_client EXCEPT ![p] = <<>>]
    /\ UNCHANGED serverVars

\* a frame while sequence numbers up to MaxSeq are given out
ClientFrame(p, movement, t) == ClientFrameWithin(p, movement, t, MaxSeq)

\* Networker::connect: the listener of the server yields the stream
ClientConnect(p) ==
    /\ Accept(p)
    /\ to_client' = [to_client EXCEPT ![p] = Append(@, InitPackage(p))]
    /\ UNCHANGED <<client, to_server>>

\* the first loop of the connection thread on the stream of the client
ClientHandshake(p) ==
    /\ to_server[p] # <<>>
    /\ Handshake(p, Head(to_server[p]))
    /\ to_server' = [to_server EXCEPT ![p] = Tail(@)]
    /\ UNCHANGED <<client, to_client>>

\* the second loop of the connection thread on the stream of the client
ClientRecv(p) ==
    /\ to_server[p] # <<>>
    /\ Recv(p, Head(to_server[p]))
    /\ to_server' = [to_server EXCEPT ![p] = Tail(@)]
    /\ UNCHANGED <<client, to_client>>

\* the account_kill block writing to the stream of the client
ClientKill(p) ==
    /\ Kill(p)
    /\ to_client' = [to_client EXCEPT
                       ![p] = IF ~poisoned /\ AccountKill(game_state, p).ret
                              THEN Append(@, KillPackage) ELSE @]
    /\ UNCHANGED <<client, to_server>>

\* the broadcast block writing to the stream of the client
ClientBroadcast(p) ==
    /\ Broadcast(p)
    /\ to_client' = [to_client EXCEPT
                       ![p] = IF /\ ~poisoned
                                 /\ clock - conn[p].last_broadcust_instant
                                       > Millis(1000 \div 30)
                              THEN Append(@, BroadcastPackage(
                                                 conn[p].last_sequence_number, game_state))
                              ELSE @]
    /\ UNCHANGED <<client, to_server>>

ClientNext ==
    \/ \E d \in TimeJumps : Advance(d) /\ UNCHANGED clientVars
    \/ Tick /\ UNCHANGED clientVars
    \/ \E p \in Players : ClientConnect(p)
    \/ \E p \in Players : ClientHandshake(p)
    \/ \E p \in Players : LoopTop(p) /\ UNCHANGED clientVars
    \/ \E p \in Players : ClientRecv(p)
    \/ \E p \in Players : Fire(p) /\ UNCHANGED clientVars
    \/ \E p \in Players : ClientKill(p)
    \/ \E p \in Players : ClientBroadcast(p)
    \/ \E p \in Players : \E movement \in ClientMovements :
       \E t \in InterpolationValues : conn[p].pc # "idle" /\ ClientFrame(p, movement, t)

(***************************************************************************)
(* One client against the packages a server may write: after Init, any     *)
(* Broadcast and Kill packages in any order.                               *)
(***************************************************************************)
\* a Character as a Broadcast carries it
PeerCharacter(id, player_id, pos, rot, health) ==
    [NewEntity(id, CreateInfo(pos, rot, Character(CharacterWeaponFromPlayerWeapon("BallGun")),
                              NoTail), player_id, 0)
        EXCEPT !.health = health]

\* the entity lists of the Broadcasts: the character of the client, if any,
\* then the character of another player, if any, which has moved, turned
\* and been hit by the time the character of the client has moved
PeerStates ==
    LET own(pos) == <<PeerCharacter(0, 1, pos, 1, CharacterHealth)>>
        before == <<PeerCharacter(1, 2, 40, 1, CharacterHealth)>>
        after == <<PeerCharacter(1, 2, 60, -1, CharacterHealth - 1)>>
    IN  {<<>>, own(40), own(50), before, own(40) \o before, own(50) \o after}

PeerPackages ==
    {[type |-> "Broadcast", sequence_number |-> n, game_state |-> es] :
        n \in 0..MaxSeq, es \in PeerStates}
    \cup {KillPackage}

\* the server writes a package to the stream of client 1
PeerWrites(package) ==
    /\ peer < MaxDelivered
    /\ peer' = peer + 1
    /\ to_client' = [to_client EXCEPT ![1] = Append(@, package)]
    /\ UNCHANGED <<client, to_server, serverVars>>

ReconNext ==
    \/ \E package \in PeerPackages : PeerWrites(package)
    \/ \E movement \in ClientMovements : \E t \in InterpolationValues :
           ClientFrame(1, movement, t) /\ UNCHANGED peer

\* the client has connected and the server has written Init
ReconInit ==
    /\ PacketInit /\ ServerInit
    /\ client = [p \in Players |-> NewClient]
    /\ to_server = [p \in Players |-> <<>>]
    /\ to_client = [p \in Players |-> IF p = 1 THEN <<InitPackage(1)>> ELSE <<>>]
    /\ peer = 0
    /\ geo = <<>>

(***************************************************************************)
(* One client whose keys are followed from frame to frame, against the     *)
(* packages a server may write.                                            *)
(***************************************************************************)
\* Controlls::new: no key is held
KeysInit ==
    /\ PacketInit /\ ServerInit
    /\ client = [p \in Players |-> NewClient]
    /\ to_server = [p \in Players |-> <<>>]
    /\ to_client = [p \in Players |-> IF p = 1 THEN <<InitPackage(1)>> ELSE <<>>]
    /\ peer = 0
    /\ geo = [movement |-> 0]

\* exec_client, one frame of 'running in which the keys give movement
KeysFrame(movement, t) ==
    /\ ClientFrameWithin(1, movement, t, MaxKeysSeq)
    /\ geo' = [movement |-> movement]
    /\ UNCHANGED peer

\* the packages of the server: Broadcasts that echo no input and hold at
\* most one character
KeysPackages ==
    {package \in PeerPackages :
        /\ package.type = "Broadcast"
        /\ package.sequence_number = 0
        /\ Len(package.game_state) <= 1}

KeysNext ==
    \/ \E package \in KeysPackages : PeerWrites(package) /\ UNCHANGED geo
    \/ \E movement \in ClientMovements : KeysFrame(movement, TScale)

(***************************************************************************)
(* The client of player 1 and its connection thread, where the sequence    *)
(* number that the Broadcasts echo is followed.  Either the player has     *)
(* just connected, or it has sent two PlayerInputs and a ball of player 2  *)
(* has killed its character after the first of them was read: the second   *)
(* is still on its way, and so is Kill.                                    *)
(***************************************************************************)
EchoWorlds == {"connected", "killed"}

EchoInit ==
    /\ PacketInit
    /\ \E world \in EchoWorlds :
          LET own == PeerCharacter(0, 1, 40, 1, CharacterHealth)
              other == PeerCharacter(1, 2, 60, 0 - 1, CharacterHealth)
              killed == world = "killed"
          IN  /\ game_state = [entities |-> IF killed THEN <<other>> ELSE <<own, other>>,
                               next_entity_id |-> IF killed THEN 3 ELSE 2,
                               kills |-> <<>>]
              /\ conn = [p \in Players |->
                           [NewConn EXCEPT
                              !.pc = "top", !.connected = TRUE,
                              !.killed = killed /\ p = 1,
                              !.last_sequence_number = IF killed /\ p = 1 THEN 1 ELSE 0]]
              /\ sent = [p \in Players |->
                           [first |-> "Init", Init |-> 1, Broadcast |-> 1,
                            Kill |-> IF killed /\ p = 1 THEN 1 ELSE 0]]
              /\ client = [p \in Players |->
                             IF p = 1
                             THEN [NewClient EXCEPT
                                     !.player_id = 1, !.inits = 1, !.connects = 1,
                                     !.first = "PlayerConnected",
                                     !.prediction = <<own, other>>,
                                     !.last_received = <<own, other>>,
                                     !.penultimate_received = <<own, other>>,
                                     !.last_sequence_number = IF killed THEN 2 ELSE 0]
                             ELSE NewClient]
              /\ to_server = [p \in Players |->
                                IF killed /\ p = 1 THEN <<PlayerInput(2, Velocity, 1, FALSE)>>
                                ELSE <<>>]
              /\ to_client = [p \in Players |->
                                IF killed /\ p = 1 THEN <<KillPackage>> ELSE <<>>]
              /\ geo = [applied |-> conn[1].last_sequence_number]
    /\ poisoned = FALSE
    /\ clock = 0
    /\ tick = [pc |-> "run", last_proceed_instant |-> 0, dead |-> FALSE, reach |-> 0]
    /\ packages_read = 0
    /\ peer = 0

\* the second loop on the stream of the client
EchoRecv(p) ==
    /\ ClientRecv(p)
    /\ geo' = IF /\ Head(to_server[p]).type = "PlayerInput"
                 /\ FindCharacterByPlayerId(game_state.entities, p) # 0
              THEN [applied |-> Head(to_server[p]).sequence_number]
              ELSE geo

\* the player whose session is killed asks for a character, once
EchoAsk(p, weapon) ==
    /\ conn[p].killed
    /\ peer = 0
    /\ peer' = 1
    /\ to_server' = [to_server EXCEPT ![p] = Append(@, RespawnRequest(weapon))]
    /\ UNCHANGED <<client, to_client, serverVars, geo>>

EchoNext ==
    \/ \E d \in TimeJumps : Advance(d) /\ UNCHANGED <<clientVars, calcVars>>
    \/ LoopTop(1) /\ UNCHANGED <<clientVars, calcVars>>
    \/ EchoRecv(1) /\ UNCHANGED peer
    \/ Fire(1) /\ UNCHANGED <<clientVars, calcVars>>
    \/ ClientKill(1) /\ UNCHANGED calcVars
    \/ ClientBroadcast(1) /\ UNCHANGED calcVars
    \/ \E movement \in ClientMovements :
           ClientFrameWithin(1, movement, TScale, MaxEchoSeq) /\ UNCHANGED calcVars
    \/ EchoAsk(1, "BallGun")

(***************************************************************************)
(* The plane: fn step and GameState::reflect with both coordinates.        *)
(* Points and vectors are [x, y], rotations [r, i]; y grows downwards.     *)
(***************************************************************************)
\* Vector::cross
Cross(a, b) == (a.x * b.y) - (a.y * b.x)

\* Point - Point
Minus(p, q) == [x |-> p.x - q.x, y |-> p.y - q.y]

\* Vector::polar
Polar(rot, len) == [x |-> rot.r * len, y |-> rot.i * len]

\* Rect::points
RectPoints(rect) ==
    <<[x |-> rect.x, y |-> rect.y],
      [x |-> rect.x + rect.w, y |-> rect.y],
      [x |-> rect.x + rect.w, y |-> rect.y + rect.h],
      [x |-> rect.x, y |-> rect.y + rect.h]>>

\* Rect::edges
RectEdges(rect) ==
    LET p == RectPoints(rect)
    IN  <<[p0 |-> p[1], p1 |-> p[2]], [p0 |-> p[2], p1 |-> p[3]],
          [p0 |-> p[3], p1 |-> p[4]], [p0 |-> p[4], p1 |-> p[1]]>>

\* Segment::ray_cast: t and u as fractions with the denominator den; a
\* division by 0.0 gives an infinity or NaN
RayCast(self, rhs) ==
    LET ac == Minus(rhs.p0, self.p0)
        cd == Minus(rhs.p1, rhs.p0)
        ab == Minus(self.p1, self.p0)
    IN  [t |-> Cross(ac, cd), u |-> Cross(ac, ab), den |-> Cross(ab, cd), segment |-> self]

\* 0 < n / den < 1; false for an infinity and for NaN
InsideUnit(n, den) ==
    /\ den # 0
    /\ IF den > 0 THEN 0 < n /\ n < den ELSE den < n /\ n < 0

\* RayCastScalars::intersects
RayCastIntersects(r) == InsideUnit(r.t, r.den) /\ InsideUnit(r.u, r.den)

\* RayCastScalars::intersection_point: p0 + (p1 - p0) * t of the first segment
IntersectionPoint(r) ==
    LET ab == Minus(r.segment.p1, r.segment.p0)
    IN  [x |-> r.segment.p0.x + (ab.x * r.t) \div r.den,
         y |-> r.segment.p0.y + (ab.y * r.t) \div r.den]

\* a mutant of EdgeRotation: the rotation is mirrored about the edge
EdgeRotationMirrored(i, rotation) ==
    IF i \in {0, 2} THEN [r |-> rotation.r, i |-> 0 - rotation.i]
    ELSE [r |-> 0 - rotation.r, i |-> rotation.i]

\* GameState::reflect, the match on the index of the edge
EdgeRotation(i, rotation) ==
    CASE i = 0 -> [r |-> rotation.r, i |-> Abs(rotation.i)]
      [] i = 1 -> [r |-> 0 - Abs(rotation.r), i |-> rotation.i]
      [] i = 2 -> [r |-> rotation.r, i |-> 0 - Abs(rotation.i)]
      [] i = 3 -> [r |-> Abs(rotation.r), i |-> rotation.i]

RECURSIVE ReflectEdgesFrom(_, _, _, _, _)
\* GameState::reflect without shields: the loop over bounds.edges() from
\* the edge of index i on; edge is the index of the edge that reflected, -1
\* when reflect returns false
ReflectEdgesFrom(position, rotation, bounds, motion_segment, i) ==
    IF i > 3 THEN [hit |-> FALSE, position |-> position, rotation |-> rotation, edge |-> 0 - 1]
    ELSE LET r == RayCast(RectEdges(bounds)[i + 1], motion_segment)
         IN  IF RayCastIntersects(r)
             THEN [hit |-> TRUE, position |-> IntersectionPoint(r),
                   rotation |-> EdgeRotation(i, rotation), edge |-> i]
             ELSE ReflectEdgesFrom(position, rotation, bounds, motion_segment, i + 1)

\* fn step inside GameState::proceed without shields, distance velosity * dt
PlaneStep(position, rotation, bounds, distance) ==
    LET p1 == Polar(rotation, distance * 2)
        motion_segment == [p0 |-> position,
                           p1 |-> [x |-> position.x + p1.x, y |-> position.y + p1.y]]
        r == ReflectEdgesFrom(position, rotation, bounds, motion_segment, 0)
        v == Polar(rotation, distance)
    IN  IF r.hit THEN r
        ELSE [r EXCEPT !.position = [x |-> position.x + v.x, y |-> position.y + v.y]]

\* the world bounds of the plane
PlaneBounds == [x |-> 2, y |-> 2, w |-> 4, h |-> 4]
\* where a projectile may be: inside the bounds, on them and just outside
PlanePoints == {[x |-> x, y |-> y] : x \in 1..7, y \in 1..7}
\* the directions a projectile may fly in
PlaneRotations == {[r |-> r, i |-> i] : r \in {0 - 1, 0, 1}, i \in {0 - 1, 0, 1}}
                      \ {[r |-> 0, i |-> 0]}
\* velosity * dt of a step
PlaneDistances == {1, 2}

\* a projectile takes a step
ReflectStep(distance) ==
    /\ geo.steps < MaxSteps
    /\ LET s == PlaneStep(geo.position, geo.rotation, PlaneBounds, distance)
       IN  geo' = [position |-> s.position, rotation |-> s.rotation, edge |-> s.edge,
                   steps |-> geo.steps + 1]
    /\ UNCHANGED <<peer, clientVars, serverVars>>

ReflectNext == \E distance \in PlaneDistances : ReflectStep(distance)

(***************************************************************************)
(* The arena: GameState::reflect with shields and world bounds on the      *)
(* plane.                                                                  *)
(***************************************************************************)
\* a / b rounded towards zero
Quot(a, b) == IF (a >= 0) = (b > 0) THEN Abs(a) \div Abs(b) ELSE 0 - (Abs(a) \div Abs(b))

\* Shield::segment: the segment of width across the facing of the
\* character, dst_from_character ahead of it; rot * I is [-i, r]
ShieldSegmentOnPlane(shield, pos, rot) ==
    LET c == [x |-> pos.x + rot.r * shield.dst_from_character,
              y |-> pos.y + rot.i * shield.dst_from_character]
        half == shield.width \div 2
    IN  [p0 |-> [x |-> c.x + rot.i * half, y |-> c.y - rot.r * half],
         p1 |-> [x |-> c.x - rot.i * half, y |-> c.y + rot.r * half]]

\* RayCastScalars::intersection_point_u_mul(0.99): the point of the motion
\* segment at 0.99 u, just short of the crossing
IntersectionPointUMulOnPlane(r, motion_segment) ==
    LET cd == Minus(motion_segment.p1, motion_segment.p0)
    IN  [x |-> motion_segment.p0.x + Quot(cd.x * r.u * 99, r.den * 100),
         y |-> motion_segment.p0.y + Quot(cd.y * r.u * 99, r.den * 100)]

\* Complex::reflect_from(v): the rotation mirrored about the direction v
ReflectFromOnPlane(rotation, v) ==
    LET rv == rotation.r * v.x + rotation.i * v.y
        vv == v.x * v.x + v.y * v.y
    IN  [r |-> Quot(2 * rv * v.x - rotation.r * vv, vv),
         i |-> Quot(2 * rv * v.y - rotation.i * vv, vv)]

RECURSIVE ReflectShieldsFrom(_, _, _, _)
\* GameState::reflect, first loop: for shield in shields, from the shield of
\* index i on; shield is the index of the shield that reflected, 0 for none
ReflectShieldsFrom(rotation, shields, motion_segment, i) ==
    IF i > Len(shields) THEN [hit |-> FALSE, shield |-> 0]
    ELSE LET r == RayCast(shields[i], motion_segment)
         IN  IF RayCastIntersects(r)
             THEN [hit |-> TRUE, shield |-> i,
                   position |-> IntersectionPointUMulOnPlane(r, motion_segment),
                   rotation |-> ReflectFromOnPlane(rotation,
                                                  Minus(shields[i].p1, shields[i].p0))]
             ELSE ReflectShieldsFrom(rotation, shields, motion_segment, i + 1)

\* a mutant of ArenaStepOf: the bounds are tried before the shields
ArenaStepBoundsFirst(position, rotation, bounds, shields, distance) ==
    LET p1 == Polar(rotation, distance * 2)
        motion_segment == [p0 |-> position,
                           p1 |-> [x |-> position.x + p1.x, y |-> position.y + p1.y]]
        s == ReflectShieldsFrom(rotation, shields, motion_segment, 1)
        b == PlaneStep(position, rotation, bounds, distance)
    IN  IF s.hit /\ ~b.hit
        THEN [hit |-> TRUE, position |-> s.position, rotation |-> s.rotation,
              edge |-> 0 - 1, shield |-> s.shield]
        ELSE [hit |-> b.hit, position |-> b.position, rotation |-> b.rotation,
              edge |-> b.edge, shield |-> 0]

\* fn step inside GameState::proceed with GameState::reflect: the shields
\* first, then the edges of the bounds, else the move by distance
ArenaStepOf(position, rotation, bounds, shields, distance) ==
    LET p1 == Polar(rotation, distance * 2)
        motion_segment == [p0 |-> position,
                           p1 |-> [x |-> position.x + p1.x, y |-> position.y + p1.y]]
        s == ReflectShieldsFrom(rotation, shields, motion_segment, 1)
        b == PlaneStep(position, rotation, bounds, distance)
    IN  IF s.hit
        THEN [hit |-> TRUE, position |-> s.position, rotation |-> s.rotation,
              edge |-> 0 - 1, shield |-> s.shield]
        ELSE [hit |-> b.hit, position |-> b.position, rotation |-> b.rotation,
              edge |-> b.edge, shield |-> 0]

\* the world bounds of the arena
ArenaBounds == [x |-> 200, y |-> 200, w |-> 400, h |-> 400]
\* where a projectile is created: inside the bounds
ArenaPoints == {[x |-> x, y |-> y] : x \in {300, 500}, y \in {300, 500}}
\* velosity * dt of a step
ArenaDistances == {50, 100}
\* the poses of the characters that hold a Shield, all inside the bounds:
\* two behind each other, one next to the right edge, one facing down, one
\* on a diagonal
ShieldPoses ==
    {[pos |-> [x |-> 420, y |-> 300], rot |-> [r |-> 1, i |-> 0]],
     [pos |-> [x |-> 380, y |-> 300], rot |-> [r |-> 1, i |-> 0]],
     [pos |-> [x |-> 580, y |-> 300], rot |-> [r |-> 1, i |-> 0]],
     [pos |-> [x |-> 300, y |-> 420], rot |-> [r |-> 0, i |-> 1]],
     [pos |-> [x |-> 420, y |-> 452], rot |-> [r |-> 1, i |-> 0]]}
\* GameState::proceed, step 1, for at most two characters with a Shield, in
\* entity order
ArenaShields ==
    LET segment(pose) ==
            ShieldSegmentOnPlane(CharacterWeaponFromPlayerWeapon("Shield").shield,
                                 pose.pos, pose.rot)
    IN  {<<>>} \cup {<<segment(a)>> : a \in ShieldPoses}
        \cup {<<segment(ab[1]), segment(ab[2])>> :
                 ab \in {cd \in ShieldPoses \X ShieldPoses : cd[1] # cd[2]}}

\* a projectile takes a step in the arena
ArenaStep(distance) ==
    /\ geo.steps < MaxSteps
    /\ LET s == ArenaStepOf(geo.position, geo.rotation, ArenaBounds, geo.shields, distance)
       IN  geo' = [position |-> s.position, rotation |-> s.rotation, edge |-> s.edge,
                   shield |-> s.shield, shields |-> geo.shields,
                   steps |-> geo.steps + 1]
    /\ UNCHANGED <<peer, clientVars, serverVars>>

ArenaNext == \E distance \in ArenaDistances : ArenaStep(distance)

(***************************************************************************)
(* Collide::collide for two lists of edges parallel to the axes.           *)
(***************************************************************************)
\* Vector::dot
Dot(a, b) == (a.x * b.x) + (a.y * b.y)

\* Vector::left_perpendicular
LeftPerpendicular(v) == [x |-> 0 - v.y, y |-> v.x]

\* Vector::normalize of a vector parallel to an axis and not zero
Normalize(v) ==
    IF v.y = 0 THEN [x |-> IF v.x > 0 THEN 1 ELSE 0 - 1, y |-> 0]
    ELSE [x |-> 0, y |-> IF v.y > 0 THEN 1 ELSE 0 - 1]

\* Point::project_on an axis of length 1, from the origin
ProjectOn(p, axis) ==
    LET k == Dot(p, axis) \div Dot(axis, axis)
    IN  [x |-> k * axis.x, y |-> k * axis.y]

\* the least and the greatest number of a set
Least(S) == CHOOSE n \in S : \A m \in S : n <= m
Greatest(S) == CHOOSE n \in S : \A m \in S : n >= m

\* collide, the closure proj: the ends of the edges projected on the axis,
\* folded with min_point and max_point
Proj(edges, axis) ==
    LET points == {ProjectOn(edges[k].p0, axis) : k \in 1..Len(edges)}
                      \cup {ProjectOn(edges[k].p1, axis) : k \in 1..Len(edges)}
    IN  [p0 |-> [x |-> Least({q.x : q \in points}), y |-> Least({q.y : q \in points})],
         p1 |-> [x |-> Greatest({q.x : q \in points}), y |-> Greatest({q.y : q \in points})]]

\* a mutant of AbsMin: the number of greater absolute value
AbsMinGreater(a, b) == IF Abs(a) < Abs(b) THEN b ELSE a

\* fn abs_min
AbsMin(a, b) == IF Abs(a) < Abs(b) THEN a ELSE b

\* fn intersects_on_basis
IntersectsOnBasis(a0, a1, b0, b1) ==
    LET s0 == <<Min(a0, a1), Max(a0, a1)>>
        s1 == <<Min(b0, b1), Max(b0, b1)>>
    IN  IF s0[1] <= s1[2] /\ s1[1] <= s0[2]
        THEN [some |-> TRUE, value |-> AbsMin(s1[2] - s0[1], s1[1] - s0[2])]
        ELSE [some |-> FALSE, value |-> 0]

NoVector == [some |-> FALSE, x |-> 0, y |-> 0]

\* Segment::exit_vec_while_intersects_on_the_same_line
ExitVecOnPlane(self, rhs) ==
    LET x == IntersectsOnBasis(self.p0.x, self.p1.x, rhs.p0.x, rhs.p1.x)
        y == IntersectsOnBasis(self.p0.y, self.p1.y, rhs.p0.y, rhs.p1.y)
    IN  IF x.some /\ y.some THEN [some |-> TRUE, x |-> x.value, y |-> y.value] ELSE NoVector

\* Iterator::min_by on Vector::len: the first of the shortest vectors
RECURSIVE MinByLen(_, _, _)
MinByLen(best, vectors, i) ==
    IF i > Len(vectors) THEN best
    ELSE MinByLen(IF Dot(vectors[i], vectors[i]) < Dot(best, best) THEN vectors[i] ELSE best,
                  vectors, i + 1)

RECURSIVE CollideFrom(_, _, _, _, _)
\* collide, the loop over the axes from the axis i on
CollideFrom(self, rhs, axes, i, exit_vectors) ==
    IF i > Len(axes)
    THEN (IF exit_vectors = <<>> THEN NoVector ELSE MinByLen(exit_vectors[1], exit_vectors, 2))
    ELSE LET exit_vec == ExitVecOnPlane(Proj(self, axes[i]), Proj(rhs, axes[i]))
         IN  IF exit_vec.some
             THEN CollideFrom(self, rhs, axes, i + 1, Append(exit_vectors, exit_vec))
             ELSE NoVector

\* Collide::collide of [Segment; C0] with [Segment; C1]
Collide(self, rhs) ==
    LET edges == self \o rhs
        axes == [k \in 1..Len(edges) |->
                    Normalize(LeftPerpendicular(Minus(edges[k].p1, edges[k].p0)))]
    IN  CollideFrom(self, rhs, axes, 1, <<>>)

\* the first box
Box0 == [x |-> 2, y |-> 2, w |-> 4, h |-> 3]
\* the boxes it is collided with
Boxes1 == {[x |-> x, y |-> y, w |-> w, h |-> h] :
              x \in 0..7, y \in 0..6, w \in {1, 2, 7}, h \in {1, 2}}

\* the edges of the two boxes are collided
CollideBoxes ==
    /\ ~geo.done
    /\ geo' = [geo EXCEPT !.done = TRUE,
                          !.exit = Collide(RectEdges(geo.box0), RectEdges(geo.box1))]
    /\ UNCHANGED <<peer, clientVars, serverVars>>

CollideNext == CollideBoxes

CollideInit ==
    /\ PacketInit /\ ServerInit /\ ClientInit
    /\ peer = 0
    /\ geo \in {[box0 |-> Box0, box1 |-> box1, done |-> FALSE, exit |-> NoVector] :
                   box1 \in Boxes1}

ReflectInit ==
    /\ PacketInit /\ ServerInit /\ ClientInit
    /\ peer = 0
    /\ geo \in {[position |-> position, rotation |-> rotation, edge |-> 0 - 1, steps |-> 0] :
                   position \in PlanePoints, rotation \in PlaneRotations}

ArenaInit ==
    /\ PacketInit /\ ServerInit /\ ClientInit
    /\ peer = 0
    /\ geo \in {[position |-> position, rotation |-> rotation, edge |-> 0 - 1, shield |-> 0,
                  shields |-> shields, steps |-> 0] :
                   position \in ArenaPoints, rotation \in PlaneRotations,
                   shields \in ArenaShields}

CalcInit == peer = 0 /\ geo = <<>>

Init == PacketInit /\ ServerInit /\ ClientInit /\ CalcInit

SpecPacket == Init /\ [][PacketNext /\ UNCHANGED <<serverVars, clientVars, calcVars>>]_vars

Spec == Init /\ [][ServerNext /\ UNCHANGED <<packetVars, clientVars, calcVars>>]_vars

SpecGame == Init /\ [][GameNext /\ UNCHANGED <<packetVars, clientVars, calcVars>>]_vars

SpecClient == Init /\ [][ClientNext /\ UNCHANGED <<packetVars, calcVars>>]_vars

SpecRecon == ReconInit /\ [][ReconNext /\ UNCHANGED <<packetVars, geo>>]_vars

SpecKeys == KeysInit /\ [][KeysNext /\ UNCHANGED packetVars]_vars

SpecEcho == EchoInit /\ [][EchoNext /\ UNCHANGED packetVars]_vars

SpecReflect == ReflectInit /\ [][ReflectNext /\ UNCHANGED packetVars]_vars

SpecCollide == CollideInit /\ [][CollideNext /\ UNCHANGED packetVars]_vars

SpecArena == ArenaInit /\ [][ArenaNext /\ UNCHANGED packetVars]_vars

\* a projectile in flight; nothing of the other parts has happened
FlightStart == PacketInit /\ FlightInit /\ ClientInit /\ CalcInit

SpecFlight ==
    FlightStart /\ [][FlightNext /\ UNCHANGED <<packetVars, clientVars, calcVars>>]_vars

\* a projectile in flight where the players fire; nothing of the other
\* parts has happened
ArmedStart == PacketInit /\ ArmedInit /\ ClientInit /\ CalcInit

SpecArmed ==
    ArmedStart /\ [][ArmedNext /\ UNCHANGED <<packetVars, clientVars, calcVars>>]_vars

\* a projectile in flight near a shield; nothing of the other parts has
\* happened
PhaseStart == PacketInit /\ PhaseInit /\ ClientInit /\ CalcInit

SpecPhase ==
    PhaseStart /\ [][FlightNext /\ UNCHANGED <<packetVars, clientVars, calcVars>>]_vars

\* a projectile near the end of its life; nothing of the other parts has
\* happened
ExpiryStart == PacketInit /\ ExpiryInit /\ ClientInit /\ CalcInit

SpecExpiry ==
    ExpiryStart /\ [][FlightNext /\ UNCHANGED <<packetVars, clientVars, calcVars>>]_vars

\* the server of SessionInit; nothing of the other parts has happened
SessionStart == PacketInit /\ SessionInit /\ ClientInit /\ CalcInit

SpecSession ==
    SessionStart /\ [][SessionNext /\ UNCHANGED <<packetVars, clientVars, calcVars>>]_vars

\* the server of ShieldInit; nothing of the other parts has happened
ShieldStart == PacketInit /\ ShieldInit /\ ClientInit /\ CalcInit

SpecShield ==
    ShieldStart /\ [][ShieldNext /\ UNCHANGED <<packetVars, clientVars, calcVars>>]_vars

SpecShieldFair ==
    /\ ShieldStart
    /\ [][ShieldFairNext /\ UNCHANGED <<packetVars, clientVars, calcVars>>]_vars
    /\ ShieldFairness

(***************************************************************************)
(* Helpers of the framing properties.                                      *)
(***************************************************************************)
RECURSIVE Stream(_)
\* the byte stream of a sequence of payloads
Stream(ps) == IF ps = <<>> THEN <<>> ELSE Frame(Head(ps)) \o Stream(Tail(ps))

IsPrefix(s, t) == Len(s) <= Len(t) /\ s = SubSeq(t, 1, Len(s))

\* the payloads written and not yet yielded
Pending == SubSeq(written, Len(yielded) + 1, Len(written))

\* buf holds no complete frame: fewer than 4 bytes, or a header followed by
\* fewer payload bytes than it announces
Incomplete(buf) ==
    \/ Len(buf) < HeaderSize
    \/ Len(buf) - HeaderSize < FromBeBytes(SubSeq(buf, 1, HeaderSize))

\* C1: the payloads yielded over all reads are the written payloads in write
\* order, none lost and none duplicated (the bytes not yet yielded are exactly
\* the frames of the payloads still pending, whatever the chunking and
\* whether iterators were drained or dropped), and once everything has been
\* delivered and an iterator has been drained all N payloads have been
\* yielded and the reader's buffer is empty.
PacketRoundTrip ==
    /\ IsPrefix(yielded, written)
    /\ buffer \o pipe = Stream(Pending)
    /\ (pipe = <<>> /\ iter = "drained") => (yielded = written /\ buffer = <<>>)

\* C1 witness: three payloads, an empty one among them, written and all
\* yielded, although a frame arrived in two chunks and an iterator was
\* dropped before it had yielded everything buffered
WitnessRoundTrip ==
    /\ last.split /\ last.early
    /\ Len(written) = MaxWrites
    /\ \E i \in 1..Len(written) : written[i] = <<>>
    /\ \E i \in 1..Len(written) : Len(written[i]) = 4
    /\ yielded = written
    /\ iter = "drained"
    /\ buffer = <<>>

\* C2: a next on a buffer with no complete frame returns None and removes
\* nothing; after an iterator is drained the buffer is exactly the incomplete
\* start of the next pending frame; a next on a buffer holding a complete
\* frame (its remaining bytes have arrived) yields exactly that pending
\* payload.
PartialDelivery ==
    /\ [][ (last'.op = "next" /\ Incomplete(buffer))
              => (last'.ret = None /\ buffer' = buffer /\ yielded' = yielded) ]_vars
    /\ [][ (last'.op = "next" /\ ~Incomplete(buffer))
              => (/\ Pending # <<>>
                  /\ last'.ret = Some(Head(Pending))
                  /\ buffer' = Drain(buffer, Len(Frame(Head(Pending))))) ]_vars
    /\ [](iter = "drained" =>
              /\ Incomplete(buffer)
              /\ IsPrefix(buffer, Stream(Pending))
              /\ (Pending # <<>> => Len(buffer) < Len(Frame(Head(Pending)))))

\* C2 witness: 10 of the 24 bytes of three four-byte payloads were delivered,
\* the first payload was yielded, the iterator is drained and 2 bytes stay
WitnessPartial ==
    /\ Len(written) = 3
    /\ \A i \in 1..3 : Len(written[i]) = 4
    /\ Len(pipe) = 14
    /\ yielded = <<written[1]>>
    /\ iter = "drained"
    /\ Len(buffer) = 2

(***************************************************************************)
(* Helpers of the world properties.                                        *)
(***************************************************************************)
\* how often x occurs in a sequence
Count(seq, x) == Cardinality({i \in 1..Len(seq) : seq[i] = x})

Ids(es) == {es[i].id : i \in 1..Len(es)}
CharacterIds(es) == {es[i].id : i \in {j \in 1..Len(es) : IsCharacter(es[j])}}

\* the healths of the entities with the id
HealthsOf(es, id) == {es[i].health : i \in {j \in 1..Len(es) : es[j].id = id}}

\* the dt of a proceed call made now
Dt == clock - tick.last_proceed_instant

\* a step in which the simulation thread calls proceed
ProceedStep == Tick /\ ~poisoned

\* at the damage loops no third entity takes part in what happens between
\* the character at ci and the ball at bi: no other projectile can hit or
\* detonate at the character, the ball can hit no other character
Alone(es, ci, bi, now) ==
    \A j \in 1..Len(es) \ {ci, bi} :
        /\ j \notin InReach(es, ci, now)
        /\ IsKind(es[j], "Mine") =>
              ~(/\ es[j].activated /\ MayAffect(es[ci], es[j], now)
                /\ Dist(es[ci].pos, es[j].pos)
                      < InscribedCircleRadius(es[ci]) + es[j].role.kind.explosion_radius)
        /\ IsCharacter(es[j]) => bi \notin InReach(es, j, now)

\* C3: when proceed resolves the collision of a Ball with health 1 and a
\* character with health 1 that it may affect, the character stays in the
\* world with health 0, its id is pushed to kills exactly once, the ball's id
\* is pushed exactly once and the ball is swept with its record; a proceed
\* call on a world that still holds a character with health 0 leaves that
\* health at 0 and pushes the id of that character to kills no more.
HealthKillAccounting ==
    [][ ProceedStep =>
          LET es == Advanced(game_state, clock, Dt)
              queued == Queued(game_state, clock, Dt)
          IN  /\ \A ci, bi \in 1..Len(es) :
                    ( /\ IsCharacter(es[ci]) /\ es[ci].health = 1
                      /\ IsKind(es[bi], "Ball") /\ es[bi].health = 1
                      /\ MayAffect(es[ci], es[bi], clock)
                      /\ BallHitsCharacter(es[bi], es[ci])
                      /\ Alone(es, ci, bi, clock) )
                    => /\ HealthsOf(game_state'.entities, es[ci].id) = {0}
                       /\ Count(queued, es[ci].id) = 1
                       /\ Count(queued, es[bi].id) = 1
                       /\ Count(game_state'.kills, es[ci].id)
                             = Count(game_state.kills, es[ci].id) + 1
                       /\ es[bi].id \notin Ids(game_state'.entities)
                       /\ Count(game_state'.kills, es[bi].id) = 0
              /\ \A i \in Dead(game_state.entities) :
                    LET c == game_state.entities[i]
                    IN  /\ HealthsOf(game_state'.entities, c.id) = {0}
                        /\ Count(queued, c.id) = 0
                        /\ Count(game_state'.kills, c.id) = Count(game_state.kills, c.id)
      ]_vars

\* C3 witness: three balls were fired and all of them hit the same
\* character (nothing else was ever created), it has health 0, its id is in
\* kills once, and the last proceed call found it with health 0 already
WitnessHealthKill ==
    /\ tick.dead
    /\ game_state.next_entity_id = 5
    /\ Len(game_state.entities) = 2
    /\ \E i \in Dead(game_state.entities) :
          /\ Count(game_state.kills, game_state.entities[i].id) = 1
          /\ Len(game_state.kills) = 1

\* C4: account_kill(p) returns true exactly if a Character of p has its id
\* in kills; then that one entity and the record of its id leave the world
\* and nothing else changes; otherwise nothing changes.  No projectile and
\* no character of another player is ever removed.
AccountKillContract ==
    [][ \A p \in Players :
          (GameKill(p) /\ ~poisoned) =>
              LET es == game_state.entities
                  kills == game_state.kills
                  victims == {i \in 1..Len(es) :
                                 /\ IsCharacter(es[i]) /\ es[i].player_id = p
                                 /\ Position(kills, es[i].id) # 0}
                  r == AccountKill(game_state, p)
              IN  /\ r.ret = (victims # {})
                  /\ game_state' = r.gs
                  /\ victims = {}
                        => /\ game_state'.entities = es
                           /\ game_state'.kills = kills
                  /\ \A i \in victims :
                        /\ victims = {i}
                        /\ game_state'.entities = Remove(es, i)
                        /\ game_state'.kills = Remove(kills, Position(kills, es[i].id))
                  /\ game_state'.next_entity_id = game_state.next_entity_id
                  /\ \A i \in 1..Len(es) :
                        (IsProjectile(es[i]) \/ es[i].player_id # p)
                            => Count(game_state'.entities, es[i]) = 1
      ]_vars

\* C4 witness: a player was accounted as killed and its character is gone,
\* the character of the other player and a projectile are still there and
\* kills is empty
WitnessAccountKill ==
    \E p, q \in Players :
        /\ p # q
        /\ conn[p].killed
        /\ FindCharacterByPlayerId(game_state.entities, p) = 0
        /\ FindCharacterByPlayerId(game_state.entities, q) # 0
        /\ Projectiles(game_state.entities) # {}
        /\ game_state.kills = <<>>

\* C5: a proceed call leaves the set of Character ids as it was, also when a
\* character has health 0 or its id is in kills, and no record of a
\* character's id leaves kills in it; the id of a character in the world
\* stays in kills until account_kill of its player consumes it.
ProceedKeepsCharacters ==
    /\ [][ ProceedStep =>
             /\ CharacterIds(game_state'.entities) = CharacterIds(game_state.entities)
             /\ \A id \in CharacterIds(game_state.entities) :
                   Count(game_state'.kills, id) >= Count(game_state.kills, id) ]_vars
    /\ [][ \A i \in 1..Len(game_state.entities) :
             LET c == game_state.entities[i]
             IN  (IsCharacter(c) /\ Position(game_state.kills, c.id) # 0)
                     => \/ Position(game_state'.kills, c.id) # 0
                        \/ GameKill(c.player_id) ]_vars

\* C5 witness: four balls were fired, one is still in the world beside the
\* two characters, one character has health 0 with its id in kills, and the
\* last proceed call found it with health 0 already
WitnessProceedKeeps ==
    /\ tick.dead
    /\ game_state.next_entity_id = 6
    /\ Len(game_state.entities) = 3
    /\ Cardinality(CharacterIds(game_state.entities)) = 2
    /\ \E i \in Dead(game_state.entities) :
          Position(game_state.kills, game_state.entities[i].id) # 0

\* C6: in one proceed call the health of a character goes down by at most 1
\* and never below 0; a character with health 0 keeps health 0 and its id is
\* not pushed to kills again.
OneDamagePerTick ==
    /\ [][ ProceedStep =>
             \A i \in 1..Len(game_state.entities) :
                 LET c == game_state.entities[i]
                 IN  IsCharacter(c) =>
                       /\ HealthsOf(game_state'.entities, c.id)
                             \subseteq {c.health, c.health - 1}
                       /\ c.health = 0 =>
                             /\ HealthsOf(game_state'.entities, c.id) = {0}
                             /\ Count(Queued(game_state, clock, Dt), c.id) = 0 ]_vars
    /\ [](\A i \in 1..Len(game_state.entities) :
             game_state.entities[i].health \in 0..255)

\* C6 witness: two balls were fired and nothing else, in the last proceed
\* call both could hit one character, one of them is still in the world and
\* the character hit has lost one health point
WitnessOneDamage ==
    /\ tick.reach = 2
    /\ game_state.next_entity_id = 4
    /\ Len(game_state.entities) = 3
    /\ \E i, j \in 1..Len(game_state.entities) :
          /\ IsCharacter(game_state.entities[i])
          /\ game_state.entities[i].health = CharacterHealth - 1
          /\ IsKind(game_state.entities[j], "Ball")
          /\ game_state.entities[j].health = 1

\* C7: the ids of the entities are pairwise distinct and below
\* next_entity_id, so an id in kills names at most one entity; every step
\* gives the entities it creates exactly the ids from next_entity_id up and
\* moves next_entity_id past them, so no id is used again.
EntityIdsDistinct ==
    /\ [](\A i, j \in 1..Len(game_state.entities) :
             i # j => game_state.entities[i].id # game_state.entities[j].id)
    /\ [](\A i \in 1..Len(game_state.entities) :
             game_state.entities[i].id < game_state.next_entity_id)
    /\ [](\A k \in 1..Len(game_state.kills) :
             Cardinality({i \in 1..Len(game_state.entities) :
                             game_state.entities[i].id = game_state.kills[k]}) <= 1)
    /\ [][ /\ game_state'.next_entity_id >= game_state.next_entity_id
           /\ Ids(game_state'.entities) \ Ids(game_state.entities)
                 = game_state.next_entity_id..(game_state'.next_entity_id - 1) ]_vars

\* C7 witness: a killed player has respawned with another weapon; its
\* character has the id 5, larger than the ids of the two first characters
\* and of the three balls fired before
WitnessIdsDistinct ==
    /\ game_state.next_entity_id = 6
    /\ \E i \in 1..Len(game_state.entities) :
          /\ IsCharacter(game_state.entities[i])
          /\ game_state.entities[i].role.weapon.name # "BallGun"
          /\ game_state.entities[i].id = 5
          /\ game_state.entities[i].health = CharacterHealth

(***************************************************************************)
(* The handshake.                                                          *)
(***************************************************************************)
\* C8: a RespawnRequest or a PlayerInput read as the first package of a
\* connection, and a PlayerConnected read after the handshake, stop the
\* connection thread and leave GameState as it is; a PlayerConnected read as
\* the first package appends exactly one Character with health 3 of the
\* connection's player_id and the thread goes on to its second loop.
HandshakeOrder ==
    /\ [][ \A p \in Players : \A package \in ClientPackages :
             Handshake(p, package) =>
                IF package.type = "PlayerConnected"
                THEN ~poisoned =>
                       /\ conn'[p].pc = "top"
                       /\ game_state'.kills = game_state.kills
                       /\ Len(game_state'.entities) = Len(game_state.entities) + 1
                       /\ SubSeq(game_state'.entities, 1, Len(game_state.entities))
                             = game_state.entities
                       /\ LET e == game_state'.entities[Len(game_state'.entities)]
                          IN  /\ IsCharacter(e) /\ e.health = 3 /\ e.player_id = p
                              /\ e.id = game_state.next_entity_id
                ELSE /\ conn'[p].pc = "panicked"
                     /\ game_state' = game_state ]_vars
    /\ [][ \A p \in Players :
             Recv(p, PlayerConnected) =>
                /\ conn'[p].pc = "panicked"
                /\ game_state' = game_state ]_vars

\* C8 witness: three packages were read; the thread of player 1 has stopped
\* on a second PlayerConnected, the character of its first one, with health
\* 3, is the only entity ever created; the thread of player 2 has stopped on
\* its first package
WitnessHandshakeOrder ==
    /\ packages_read = 3
    /\ conn[1].pc = "panicked" /\ conn[2].pc = "panicked"
    /\ game_state.next_entity_id = 1
    /\ Len(game_state.entities) = 1
    /\ IsCharacter(game_state.entities[1])
    /\ game_state.entities[1].player_id = 1
    /\ game_state.entities[1].health = CharacterHealth

\* C9: on every connection the first package written is Init and it is
\* written once; a Broadcast or a Kill is written only by a thread that has
\* read its PlayerConnected, and reading it created the character of the
\* connection.
InitFirstOnce ==
    /\ [](\A p \in Players :
             IF conn[p].pc = "idle" THEN sent[p] = NoneSent
             ELSE sent[p].first = "Init" /\ sent[p].Init = 1)
    /\ [][ \A p \in Players :
             (sent'[p].Broadcast # sent[p].Broadcast \/ sent'[p].Kill # sent[p].Kill)
                 => conn[p].connected ]_vars
    /\ [][ \A p \in Players :
             (conn'[p].connected /\ ~conn[p].connected)
                 => /\ Handshake(p, PlayerConnected)
                    /\ FindCharacterByPlayerId(game_state.entities, p) = 0
                    /\ FindCharacterByPlayerId(game_state'.entities, p) # 0 ]_vars
    /\ [](\A p \in Players :
             (sent[p].Broadcast # 0 \/ sent[p].Kill # 0)
                 => conn[p].pc \notin {"idle", "handshake"})

\* C9 witness: time has passed; one connection has got Init once and first,
\* and then a Broadcast after its handshake, the other has got Init and
\* nothing more while its thread waits for the first package
WitnessInitFirstOnce ==
    \E p, q \in Players :
        /\ clock > 0
        /\ conn[p].connected /\ conn[p].pc # "panicked"
        /\ sent[p] = [first |-> "Init", Init |-> 1, Broadcast |-> 1, Kill |-> 0]
        /\ conn[q].pc = "handshake"
        /\ sent[q] = [first |-> "Init", Init |-> 1, Broadcast |-> 0, Kill |-> 0]

(***************************************************************************)
(* The client against the server.                                          *)
(***************************************************************************)
\* C10: the client writes one PlayerConnected per Init it has handled; a
\* frame writes a PlayerInput only when player_id is set and the prediction
\* holds an entity of the player; so the first package a client writes is
\* PlayerConnected, the package the first loop of its connection thread
\* reads is PlayerConnected, and that loop never stops the thread on a
\* package of another type.
ClientConnectsFirst ==
    /\ [](\A p \in Players :
             /\ client[p].connects = client[p].inits
             /\ client[p].first \in {"none", "PlayerConnected"}
             /\ (conn[p].pc = "handshake" /\ to_server[p] # <<>>)
                    => Head(to_server[p]).type = "PlayerConnected")
    /\ [][ \A p \in Players :
             client'[p].last_sequence_number # client[p].last_sequence_number
                 => /\ client[p].player_id # 0
                    /\ FindByPlayerId(client[p].prediction, client[p].player_id) # 0
                    /\ client[p].first = "PlayerConnected" ]_vars
    /\ [][ \A p \in Players :
             (conn[p].pc = "handshake" /\ conn'[p].pc # "handshake")
                 => /\ to_server[p] # <<>>
                    /\ Head(to_server[p]).type = "PlayerConnected"
                    /\ ~poisoned => conn'[p].pc = "top" ]_vars

\* C10 witness: both clients have handled their Init and written their
\* PlayerConnected, both threads have left the first loop and none has
\* stopped; client 1 has then written a PlayerInput, which its thread has
\* handled
WitnessClientConnectsFirst ==
    /\ \A p \in Players :
          /\ client[p].inits = 1 /\ client[p].connects = 1
          /\ conn[p].connected /\ conn[p].pc # "panicked"
    /\ client[1].last_sequence_number = 1
    /\ client[1].first = "PlayerConnected"
    /\ conn[1].last_sequence_number = 1
    /\ packages_read = 3

(***************************************************************************)
(* Reconciliation and interpolation on the client.                         *)
(***************************************************************************)
\* the Broadcast packages of a stream, in order
BroadcastsOf(stream) == SelectSeq(stream, LAMBDA package : package.type = "Broadcast")

\* a Kill is read before the first Broadcast of the stream
KillBeforeBroadcast(stream) ==
    \E k \in 1..Len(stream) :
        /\ stream[k].type = "Kill"
        /\ \A j \in 1..(k - 1) : stream[j].type # "Broadcast"

\* x lies between a and b
Between(a, x, b) == Min(a, b) <= x /\ x <= Max(a, b)

\* a frame of client 1 handles one Broadcast, older than the newest
\* PlayerInput, while its prediction, after the input block, holds its
\* character and the Broadcast reports that character too
StaleBroadcast(movement) ==
    LET c == ClientInput(client[1], movement).c
        bs == BroadcastsOf(to_client[1])
    IN  /\ Len(bs) = 1
        /\ client'[1].player_id # 0
        /\ bs[1].sequence_number < c.last_sequence_number
        /\ FindCharacterByPlayerId(c.prediction, client'[1].player_id) # 0
        /\ FindCharacterByPlayerId(bs[1].game_state, client'[1].player_id) # 0

\* after such a frame the prediction holds the entities of the Broadcast in
\* their order, the character of the player being the predicted one
LocalEntityRestored(movement) ==
    LET c == ClientInput(client[1], movement).c
        b == BroadcastsOf(to_client[1])[1].game_state
        own == client'[1].player_id
        result == client'[1].prediction
    IN  /\ Len(result) = Len(b)
        /\ \A k \in 1..Len(b) :
              /\ result[k].id = b[k].id
              /\ k = FindCharacterByPlayerId(b, own)
                    => result[k] = c.prediction[FindCharacterByPlayerId(c.prediction, own)]

\* C11 as stated: after a stale Broadcast and lerp_merge the character of
\* the player in the prediction is exactly the predicted one, and every
\* entity of another player is exactly the entity of the Broadcast.
ReconciliationTakesServerValues ==
    [][ \A movement \in ClientMovements : \A t \in InterpolationValues :
          (ClientFrame(1, movement, t) /\ StaleBroadcast(movement))
              => /\ LocalEntityRestored(movement)
                 /\ LET b == BroadcastsOf(to_client[1])[1].game_state
                    IN  \A k \in 1..Len(b) :
                          b[k].player_id # client'[1].player_id
                              => client'[1].prediction[k] = b[k] ]_vars

\* C11: after a stale Broadcast and lerp_merge the character of the player
\* in the prediction is exactly the predicted one; every entity of another
\* player has the fields of the Broadcast, except that pos and rot of an
\* entity the previous Broadcast held too lie between the values of the
\* previous Broadcast and the values of this one.
ReconciliationKeepsPrediction ==
    [][ \A movement \in ClientMovements : \A t \in InterpolationValues :
          (ClientFrame(1, movement, t) /\ StaleBroadcast(movement))
              => /\ LocalEntityRestored(movement)
                 /\ LET b == BroadcastsOf(to_client[1])[1].game_state
                        previous == client[1].last_received
                    IN  \A k \in 1..Len(b) :
                          b[k].player_id # client'[1].player_id
                              => LET r == client'[1].prediction[k]
                                     j == FindById(previous, b[k].id)
                                 IN  IF j = 0 THEN r = b[k]
                                     ELSE /\ r = [b[k] EXCEPT !.pos = r.pos, !.rot = r.rot]
                                          /\ Between(previous[j].pos, r.pos, b[k].pos)
                                          /\ Between(previous[j].rot, r.rot, b[k].rot) ]_vars

\* C11 witness: the client has sent PlayerInput 1 and then handled a
\* Broadcast with sequence_number 0: its character is where it predicted it
\* and not where the Broadcast reports it, and the character of the other
\* player, which the previous Broadcast held elsewhere, is halfway
WitnessReconciliationKeepsPrediction ==
    /\ client[1].last_sequence_number = 1
    /\ FindCharacterByPlayerId(client[1].last_received, 1) # 0
    /\ FindCharacterByPlayerId(client[1].prediction, 1) # 0
    /\ client[1].prediction[FindCharacterByPlayerId(client[1].prediction, 1)].pos
           # client[1].last_received[FindCharacterByPlayerId(client[1].last_received, 1)].pos
    /\ \E i \in 1..Len(client[1].prediction) : \E j \in 1..Len(client[1].last_received) :
       \E k \in 1..Len(client[1].penultimate_received) :
          /\ client[1].prediction[i].id = client[1].last_received[j].id
          /\ client[1].penultimate_received[k].id = client[1].last_received[j].id
          /\ client[1].last_received[j].player_id = 2
          /\ client[1].penultimate_received[k].pos = 40
          /\ client[1].last_received[j].pos = 60
          /\ client[1].prediction[i].pos = 50

\* C12 as stated: when the Broadcast a frame handles is not older than the
\* newest PlayerInput, or the client has read a Kill before it, the
\* predicted character is not put back: the prediction holds the entities
\* of the Broadcast, the character of the player as the Broadcast reports
\* it and none when the Broadcast reports none.
SpliceOnlyWhenStaleAndAlive ==
    [][ \A movement \in ClientMovements : \A t \in InterpolationValues :
          LET c == ClientInput(client[1], movement).c
              bs == BroadcastsOf(to_client[1])
              own == client'[1].player_id
          IN  ( /\ ClientFrame(1, movement, t)
                /\ Len(bs) = 1
                /\ own # 0
                /\ \/ bs[1].sequence_number >= c.last_sequence_number
                   \/ client[1].killed
                   \/ KillBeforeBroadcast(to_client[1]) )
                  => LET i == FindCharacterByPlayerId(bs[1].game_state, own)
                         r == FindCharacterByPlayerId(client'[1].prediction, own)
                     IN  /\ Len(client'[1].prediction) = Len(bs[1].game_state)
                         /\ i = r
                         /\ i # 0 => client'[1].prediction[r] = bs[1].game_state[i] ]_vars

\* C13: after lerp_merge every entity of last_received that is not of the
\* player is in the prediction: one that penultimate_received holds too has
\* pos and rot of penultimate_received at t = 0 and of last_received at
\* t = 1, and for every t its other fields are the ones of last_received;
\* one that only last_received holds is copied unchanged.
LerpMergeEndpoints ==
    [][ \A movement \in ClientMovements : \A t \in InterpolationValues :
          (ClientFrame(1, movement, t) /\ client'[1].player_id # 0)
              => LET a == client'[1].penultimate_received
                     b == client'[1].last_received
                     result == client'[1].prediction
                 IN  \A k \in 1..Len(b) :
                       b[k].player_id # client'[1].player_id
                           => LET i == FindById(result, b[k].id)
                                  j == FindById(a, b[k].id)
                              IN  /\ i # 0
                                  /\ j = 0 => result[i] = b[k]
                                  /\ j # 0 =>
                                       /\ result[i] = [b[k] EXCEPT !.pos = result[i].pos,
                                                                   !.rot = result[i].rot]
                                       /\ t = 0 => /\ result[i].pos = a[j].pos
                                                   /\ result[i].rot = a[j].rot
                                       /\ t = TScale => /\ result[i].pos = b[k].pos
                                                        /\ result[i].rot = b[k].rot ]_vars

\* C13 witness: last_received holds the character of the other player with
\* other pos, rot and health than penultimate_received, and the prediction
\* holds it with pos and rot of penultimate_received and the health of
\* last_received
WitnessLerpMergeEndpoints ==
    /\ client[1].player_id = 1
    /\ \E i \in 1..Len(client[1].prediction) : \E j \in 1..Len(client[1].last_received) :
       \E k \in 1..Len(client[1].penultimate_received) :
          /\ client[1].prediction[i].id = client[1].last_received[j].id
          /\ client[1].penultimate_received[k].id = client[1].last_received[j].id
          /\ client[1].last_received[j].player_id = 2
          /\ client[1].penultimate_received[k].pos # client[1].last_received[j].pos
          /\ client[1].penultimate_received[k].rot # client[1].last_received[j].rot
          /\ client[1].penultimate_received[k].health # client[1].last_received[j].health
          /\ client[1].prediction[i].pos = client[1].penultimate_received[k].pos
          /\ client[1].prediction[i].rot = client[1].penultimate_received[k].rot
          /\ client[1].prediction[i].health = client[1].last_received[j].health

(***************************************************************************)
(* Reflection from the world bounds.                                       *)
(***************************************************************************)
\* the path from c to d passes, strictly between its ends, through the line
\* y = y0 at a point strictly between x = x0 and x = x1
CrossesHorizontal(c, d, y0, x0, x1) ==
    /\ (c.y - y0) * (d.y - y0) < 0
    /\ LET den == d.y - c.y
           num == c.x * den + (d.x - c.x) * (y0 - c.y)
       IN  IF den > 0 THEN x0 * den < num /\ num < x1 * den
           ELSE x1 * den < num /\ num < x0 * den

\* the same for the line x = x0 between y = y0 and y = y1
CrossesVertical(c, d, x0, y0, y1) ==
    /\ (c.x - x0) * (d.x - x0) < 0
    /\ LET den == d.x - c.x
           num == c.y * den + (d.y - c.y) * (x0 - c.x)
       IN  IF den > 0 THEN y0 * den < num /\ num < y1 * den
           ELSE y1 * den < num /\ num < y0 * den

\* C14: a step whose motion segment crosses the top edge of the world
\* bounds leaves the rotation with i = |i|, which is not negative, and r
\* unchanged; otherwise one that crosses the right edge leaves r = -|r| and
\* i unchanged; otherwise the bottom edge i = -|i| and r unchanged;
\* otherwise the left edge r = |r| and i unchanged; the position is then on
\* that edge.  A step that crosses no edge keeps the rotation.
ReflectForcesSign ==
    [][ \A distance \in PlaneDistances :
          ReflectStep(distance) =>
              LET c == geo.position
                  rot == geo.rotation
                  b == PlaneBounds
                  d == [x |-> c.x + 2 * distance * rot.r, y |-> c.y + 2 * distance * rot.i]
              IN  IF CrossesHorizontal(c, d, b.y, b.x, b.x + b.w)
                  THEN /\ geo'.rotation = [r |-> rot.r, i |-> Abs(rot.i)]
                       /\ geo'.rotation.i >= 0
                       /\ geo'.position.y = b.y
                  ELSE IF CrossesVertical(c, d, b.x + b.w, b.y, b.y + b.h)
                  THEN /\ geo'.rotation = [r |-> 0 - Abs(rot.r), i |-> rot.i]
                       /\ geo'.position.x = b.x + b.w
                  ELSE IF CrossesHorizontal(c, d, b.y + b.h, b.x, b.x + b.w)
                  THEN /\ geo'.rotation = [r |-> rot.r, i |-> 0 - Abs(rot.i)]
                       /\ geo'.position.y = b.y + b.h
                  ELSE IF CrossesVertical(c, d, b.x, b.y, b.y + b.h)
                  THEN /\ geo'.rotation = [r |-> Abs(rot.r), i |-> rot.i]
                       /\ geo'.position.x = b.x
                  ELSE /\ geo'.rotation = rot
                       /\ geo'.position = [x |-> c.x + distance * rot.r,
                                           y |-> c.y + distance * rot.i] ]_vars

\* C14 witness: the second step of a projectile has crossed the top edge:
\* the projectile is on that edge and flies downwards and to the right
WitnessReflectForcesSign ==
    /\ geo.steps = 2
    /\ geo.edge = 0
    /\ geo.position.y = PlaneBounds.y
    /\ geo.rotation = [r |-> 1, i |-> 1]

(***************************************************************************)
(* Collision of two boxes.                                                 *)
(***************************************************************************)
\* the extents [a0, a1] and [b0, b1] are apart
Gap(a0, a1, b0, b1) == b0 > a1 \/ b1 < a0

\* the length of what the extents [a0, a1] and [b0, b1] share
Overlap(a0, a1, b0, b1) == Min(a1, b1) - Max(a0, b0)

\* one of the extents lies strictly inside the other
StrictlyInside(a0, a1, b0, b1) == (a0 < b0 /\ b1 < a1) \/ (b0 < a0 /\ a1 < b1)

\* the least distance by which [b0, b1] must move along the axis, either
\* way, to share no more than an end with [a0, a1]
ExitDistance(a0, a1, b0, b1) ==
    Least({d \in 0..(a1 - a0 + b1 - b0) : b0 + d >= a1 \/ b1 - d <= a0})

\* the square of the length of the exit vector collide has returned
ExitLen2 == Dot(geo.exit, geo.exit)

\* C15 as stated: collide returns None for boxes with a gap on x and, for
\* boxes that overlap, an exit vector whose length is the smaller of the
\* overlap on x and the overlap on y.
CollideIsSmallerOverlap ==
    geo.done =>
        LET a == geo.box0
            b == geo.box1
            x == Overlap(a.x, a.x + a.w, b.x, b.x + b.w)
            y == Overlap(a.y, a.y + a.h, b.y, b.y + b.h)
        IN  /\ Gap(a.x, a.x + a.w, b.x, b.x + b.w) => ~geo.exit.some
            /\ (x >= 0 /\ y >= 0) => /\ geo.exit.some
                                     /\ ExitLen2 = Min(x, y) * Min(x, y)

\* C15: collide returns None for boxes with a gap on x and, for boxes that
\* overlap, an exit vector whose length is the smaller of the exit distance
\* on x and the exit distance on y, the exit distance being the least move
\* along the axis that separates the extents; it is the overlap on that
\* axis unless one extent lies strictly inside the other.
CollideIsSmallerExitDistance ==
    geo.done =>
        LET a == geo.box0
            b == geo.box1
            x == Overlap(a.x, a.x + a.w, b.x, b.x + b.w)
            y == Overlap(a.y, a.y + a.h, b.y, b.y + b.h)
            dx == ExitDistance(a.x, a.x + a.w, b.x, b.x + b.w)
            dy == ExitDistance(a.y, a.y + a.h, b.y, b.y + b.h)
        IN  /\ Gap(a.x, a.x + a.w, b.x, b.x + b.w) => ~geo.exit.some
            /\ (x >= 0 /\ y >= 0) =>
                  /\ geo.exit.some
                  /\ ExitLen2 = Min(dx, dy) * Min(dx, dy)
                  /\ ~StrictlyInside(a.x, a.x + a.w, b.x, b.x + b.w) => dx = x
                  /\ ~StrictlyInside(a.y, a.y + a.h, b.y, b.y + b.h) => dy = y

\* C15 witness: collide has returned an exit vector of length 1 for two
\* boxes that share a strip of width 1 and height 2, neither extent inside
\* the other
WitnessCollideIsSmallerExitDistance ==
    /\ geo.done
    /\ geo.exit.some
    /\ ExitLen2 = 1
    /\ Overlap(geo.box0.x, geo.box0.x + geo.box0.w, geo.box1.x, geo.box1.x + geo.box1.w) = 1
    /\ Overlap(geo.box0.y, geo.box0.y + geo.box0.h, geo.box1.y, geo.box1.y + geo.box1.h) = 2
    /\ ~StrictlyInside(geo.box0.x, geo.box0.x + geo.box0.w, geo.box1.x, geo.box1.x + geo.box1.w)
    /\ ~StrictlyInside(geo.box0.y, geo.box0.y + geo.box0.h, geo.box1.y, geo.box1.y + geo.box1.h)

(***************************************************************************)
(* Errors of the stream under PacketReader::read.                          *)
(***************************************************************************)
\* C16: a read that meets WouldBlock returns Ok with an iterator, and the
\* buffer keeps the bytes it held and the bytes copied; a next of that
\* iterator after a read that copied nothing yields the complete payload
\* the buffer already held; a read that meets another error returns that
\* error and no iterator.
WouldBlockIsZeroBytes ==
    /\ [][ \A k \in 0..Len(pipe) :
             Read(k, "WouldBlock")
                 => /\ ~last'.err
                    /\ iter' = "open"
                    /\ buffer' = buffer \o SubSeq(pipe, 1, k)
                    /\ buffer' \o pipe' = buffer \o pipe ]_vars
    /\ [][ (IterNext /\ last.op = "read" /\ last.zero /\ ~last.err /\ ~Incomplete(buffer))
              => /\ Pending # <<>>
                 /\ last'.ret = Some(Head(Pending))
                 /\ yielded' = Append(yielded, Head(Pending)) ]_vars
    /\ [][ \A k \in 0..Len(pipe) :
             Read(k, "ConnectionReset") => (last'.err /\ iter' = "none") ]_vars

\* C16 witness: an iterator was dropped before it had yielded a payload the
\* buffer held, a read then copied nothing and returned Ok, and the next of
\* its iterator has yielded that payload
WitnessWouldBlockIsZeroBytes ==
    /\ last.op = "next"
    /\ last.zero /\ ~last.err
    /\ last.early
    /\ last.ret.some
    /\ pipe = <<>>

KillsNamesEntitiesOnce ==
    /\ \A k, l \in 1..Len(game_state.kills) :
          k # l => game_state.kills[k] # game_state.kills[l]
    /\ \A k \in 1..Len(game_state.kills) :
          game_state.kills[k] \in Ids(game_state.entities)

\* C19: the assertion of register_kill has never failed: the mutex is not
\* poisoned and no thread has panicked.
RegisterKillNeverFails ==
    /\ ~poisoned
    /\ tick.pc # "panicked"
    /\ \A p \in Players : conn[p].pc # "panicked"

\* the character with the id is a character of p and the id is in kills
QueuedCharacter(p, id) ==
    /\ Position(game_state.kills, id) # 0
    /\ \E i \in 1..Len(game_state.entities) :
          /\ IsCharacter(game_state.entities[i])
          /\ game_state.entities[i].id = id
          /\ game_state.entities[i].player_id = p

\* the characters of p in the world
CharactersOf(p, es) == {i \in 1..Len(es) : IsCharacter(es[i]) /\ es[i].player_id = p}

\* C20: when the id of the character with one health point is in kills,
\* eventually the character is out of the world, unless the thread of its
\* player has stopped; a character leaves the world only in the account_kill
\* block of its player, which sets killed, clears left_mouse_pressed and
\* writes Kill; and Kill is written only in a step that takes exactly one
\* character of the player out of the world.
KillIsNotified ==
    /\ QueuedCharacter(ShieldCharacter.player_id, ShieldCharacter.id)
          ~> \/ ShieldCharacter.id \notin Ids(game_state.entities)
             \/ conn[ShieldCharacter.player_id].pc = "panicked"
    /\ [][ \A p \in Players :
             Cardinality(CharactersOf(p, game_state'.entities))
                 < Cardinality(CharactersOf(p, game_state.entities))
                 => /\ Kill(p)
                    /\ conn'[p].killed
                    /\ ~conn'[p].left_mouse_pressed
                    /\ sent'[p].Kill = sent[p].Kill + 1 ]_vars
    /\ [][ \A p \in Players :
             sent'[p].Kill # sent[p].Kill
                 => Cardinality(CharactersOf(p, game_state'.entities))
                       = Cardinality(CharactersOf(p, game_state.entities)) - 1 ]_vars

\* C20 witness: the character of player 1 lost its last health point to a
\* Ball, its thread has accounted the kill and written the second Kill of
\* this connection; no thread has stopped
WitnessKillIsNotified ==
    /\ sent[1].Kill = 2
    /\ conn[1].killed /\ ~conn[1].left_mouse_pressed
    /\ CharactersOf(1, game_state.entities) = {}
    /\ game_state.kills = <<>>
    /\ RegisterKillNeverFails

(***************************************************************************)
(* Mines and owner invincibility: a projectile in flight under proceed.    *)
(***************************************************************************)
\* a step in which the simulation thread calls proceed on the world with a
\* projectile in flight
FlightProceed == TickWithin(MaxFlightIds) /\ ~poisoned

\* the characters at which the activated mine at index pi detonates: the
\* mine is allowed to react to them and they are inside explosion_radius
Inside(es, pi, now) ==
    {ci \in 1..Len(es) :
        /\ IsCharacter(es[ci]) /\ es[pi].activated /\ MayAffect(es[ci], es[pi], now)
        /\ Dist(es[ci].pos, es[pi].pos)
              < InscribedCircleRadius(es[ci]) + es[pi].role.kind.explosion_radius}

\* the characters the activated mine at index pi senses without detonating:
\* inside detection_radius, outside explosion_radius
Sensed(es, pi, now) ==
    {ci \in 1..Len(es) :
        /\ IsCharacter(es[ci]) /\ es[pi].activated /\ MayAffect(es[ci], es[pi], now)
        /\ Dist(es[ci].pos, es[pi].pos)
              < InscribedCircleRadius(es[ci]) + es[pi].role.kind.detection_radius
        /\ Dist(es[ci].pos, es[pi].pos)
              >= InscribedCircleRadius(es[ci]) + es[pi].role.kind.explosion_radius}

\* the entities of es that proceed has created in this call as debris of
\* the mine m
DebrisOf(es, m, next_entity_id) ==
    {i \in 1..Len(es) :
        /\ es[i].id >= next_entity_id
        /\ es[i].role = Projectile(m.role.kind.debris_kind)
        /\ es[i].pos = m.pos /\ es[i].player_id = m.player_id}

\* C25: when proceed finds a character inside explosion_radius of an
\* activated mine that may react to it (and the mine senses no character
\* outside that radius, so it stays where it is), the call creates exactly
\* debris_count projectiles of debris_kind at the position of the mine for
\* its player, pushes the id of the mine to kills exactly once, and leaves
\* neither the mine nor a record of its id, however many characters are
\* inside.
MineDetonatesOnce ==
    [][ FlightProceed =>
          LET es == Advanced(game_state, clock, Dt)
              queued == Queued(game_state, clock, Dt)
          IN  \A pi \in 1..Len(es) :
                 ( /\ IsKind(es[pi], "Mine")
                   /\ Inside(es, pi, clock) # {}
                   /\ Sensed(es, pi, clock) = {} )
                 => /\ Cardinality(DebrisOf(game_state'.entities, es[pi],
                                            game_state.next_entity_id))
                          = es[pi].role.kind.debris_count
                    /\ Len(game_state'.entities)
                          = Len(es) - 1 + es[pi].role.kind.debris_count
                    /\ Count(queued, es[pi].id) = 1
                    /\ es[pi].id \notin Ids(game_state'.entities)
                    /\ Count(game_state'.kills, es[pi].id) = 0
      ]_vars

\* the positions of the entities with the id
PositionsOf(es, id) == {es[i].pos : i \in {j \in 1..Len(es) : es[j].id = id}}

\* C26: when proceed (with time passed) finds characters inside
\* detection_radius and none inside explosion_radius of an activated mine
\* that may react to them, every such character is moved away from the mine
\* and the mine is where its own motion has put it.
MineRepelsCharacter ==
    [][ FlightProceed /\ Dt > 0 =>
          LET es == Advanced(game_state, clock, Dt)
          IN  \A pi \in 1..Len(es) :
                 ( /\ IsKind(es[pi], "Mine")
                   /\ Inside(es, pi, clock) = {}
                   /\ Sensed(es, pi, clock) # {} )
                 => /\ \A ci \in Sensed(es, pi, clock) :
                          \A x \in PositionsOf(game_state'.entities, es[ci].id) :
                             Dist(x, es[pi].pos) > Dist(es[ci].pos, es[pi].pos)
                    /\ PositionsOf(game_state'.entities, es[pi].id) = {es[pi].pos}
      ]_vars

\* every projectile of es is a mine
OnlyMines(es) == \A i \in 1..Len(es) : IsProjectile(es[i]) => IsKind(es[i], "Mine")

\* C27: processing a mine never changes the health of a character and never
\* queues the id of a character: the body of the inner loop for a character
\* and a mine leaves every health as it is and adds at most the id of the
\* mine to kills, and a proceed call on a world whose projectiles are all
\* mines leaves every character with its health and queues no character.
MineSparesCharacters ==
    [][ FlightProceed =>
          LET es == Advanced(game_state, clock, Dt)
              st == [es |-> es, kills |-> game_state.kills, infos |-> <<>>]
          IN  /\ \A ci, pi \in 1..Len(es) :
                     (IsCharacter(es[ci]) /\ IsKind(es[pi], "Mine"))
                     => LET r == DamagePair(st, ci, pi, clock, Dt).st
                        IN  /\ \A i \in 1..Len(es) : r.es[i].health = es[i].health
                            /\ r.kills \in {st.kills, Append(st.kills, es[pi].id)}
              /\ OnlyMines(es)
                 => /\ \A id \in CharacterIds(game_state.entities) :
                          /\ HealthsOf(game_state'.entities, id)
                                = HealthsOf(game_state.entities, id)
                          /\ Count(Queued(game_state, clock, Dt), id) = 0
                          /\ Count(game_state'.kills, id) = Count(game_state.kills, id)
      ]_vars

\* C27 witness: a mine has detonated at characters inside its
\* explosion_radius (its debris is in the world and the mine is gone) and
\* both characters have all their health
WitnessMineSparesCharacters ==
    /\ \E i \in 1..Len(game_state.entities) :
          /\ game_state.entities[i].id >= 9
          /\ IsProjectile(game_state.entities[i])
    /\ 8 \notin Ids(game_state.entities)
    /\ \A i \in 1..Len(game_state.entities) :
          IsCharacter(game_state.entities[i]) => game_state.entities[i].health = CharacterHealth
    /\ game_state.kills = <<>>

\* the mines of es that are still in the world after the step, with the
\* entity they have become: pairs <<before, after>>
MinesKept(es, after) ==
    {<<es[ix[1]], after[ix[2]]>> :
        ix \in {jx \in (1..Len(es)) \X (1..Len(after)) :
                  IsKind(es[jx[1]], "Mine") /\ after[jx[2]].id = es[jx[1]].id}}

\* the velocity of the mine and its acceleration have opposite signs
Decelerating(e) ==
    /\ e.role.kind.velocity # 0
    /\ e.role.kind.acceleration # 0
    /\ Signum(e.role.kind.velocity) # Signum(e.role.kind.acceleration)

\* C28: over the proceed calls the velocity of a mine never changes sign;
\* a call replaces the velocity v by v + acceleration * dt when both have the
\* same sign and leaves it unchanged otherwise; and a decelerating mine
\* slows down until it stops at zero: when a call with dt > 0 no longer
\* slows it down, its velocity is zero.
MineStopsAtZero ==
    [][ FlightProceed =>
          \A m \in MinesKept(game_state.entities, game_state'.entities) :
             LET v == m[1].role.kind.velocity
                 new_velocity == v + (m[1].role.kind.acceleration * Dt) \div 10
                 after == m[2].role.kind.velocity
             IN  /\ Signum(after) = Signum(v)
                 /\ after = IF Signum(v) = Signum(new_velocity) THEN new_velocity ELSE v
                 /\ (Decelerating(m[1]) /\ Dt > 0) => (Abs(after) < Abs(v) \/ after = 0)
      ]_vars

\* C29: a mine is created with activated = false; after a proceed call the
\* flag of every mine still in the world says whether its age at the call
\* exceeds activation_duration; and a mine that is not activated neither
\* reacts to a character nor detonates: the call leaves it where its own
\* motion puts it, does not queue its id and creates no debris for it.
MineActivation ==
    [][ FlightProceed =>
          LET es == Advanced(game_state, clock, Dt)
              after == game_state'.entities
          IN  /\ \A j \in 1..Len(after) :
                     (IsKind(after[j], "Mine") /\ after[j].id >= game_state.next_entity_id)
                     => (~after[j].activated /\ after[j].birth_instant = clock)
              /\ \A m \in MinesKept(game_state.entities, after) :
                     m[2].activated
                        = (clock - m[1].birth_instant > m[1].role.kind.activation_duration)
              /\ \A pi \in 1..Len(es) :
                     (IsKind(es[pi], "Mine") /\ ~es[pi].activated)
                     => /\ \E j \in 1..Len(after) : after[j] = es[pi]
                        /\ Count(Queued(game_state, clock, Dt), es[pi].id) = 0
                        /\ DebrisOf(after, es[pi], game_state.next_entity_id) = {}
      ]_vars

\* C29 witness: after a proceed call a mine whose age is exactly its
\* activation_duration is not activated and lies untouched inside
\* explosion_radius of the character of the other player
WitnessMineActivation ==
    /\ tick.last_proceed_instant = clock /\ clock > 0
    /\ \E i, j \in 1..Len(game_state.entities) :
          LET m == game_state.entities[i]
              c == game_state.entities[j]
          IN  /\ IsKind(m, "Mine") /\ IsCharacter(c)
              /\ ~m.activated
              /\ clock - m.birth_instant = m.role.kind.activation_duration
              /\ c.player_id # m.player_id
              /\ Dist(c.pos, m.pos) < InscribedCircleRadius(c) + m.role.kind.explosion_radius

\* the projectile p touches the character c: the test of its arm of the
\* damage loops without the guard on the owner
Touches(p, c) ==
    IF IsKind(p, "Ball") THEN BallHitsCharacter(p, c)
    ELSE IF IsKind(p, "Ray") THEN TraceHitsCharacter(p, c)
    ELSE /\ p.activated
         /\ Dist(c.pos, p.pos) < InscribedCircleRadius(c) + p.role.kind.detection_radius

\* the state of the damage loops with the character at ci given to another
\* player
AsStranger(st, ci) == [st EXCEPT !.es[ci].player_id = 3 - @]

\* C30: in a proceed call a Ball, Ray or Mine has no effect on the character
\* of its own player while its age is at most owner_invincibility_duration;
\* afterwards it acts on that character as it would on the character of any
\* other player; on the characters of other players its effect does not
\* depend on its age.
OwnerInvincibility ==
    [][ FlightProceed =>
          LET es == Advanced(game_state, clock, Dt)
              st == [es |-> es, kills |-> game_state.kills, infos |-> <<>>]
          IN  /\ \A ci, pi \in 1..Len(es) :
                     (IsCharacter(es[ci]) /\ IsProjectile(es[pi]))
                     => LET age == clock - es[pi].birth_instant
                            protected == age <= es[pi].role.kind.owner_invincibility_duration
                            r == DamagePair(st, ci, pi, clock, Dt)
                            other == DamagePair(AsStranger(st, ci), ci, pi, clock, Dt)
                        IN  IF es[ci].player_id = es[pi].player_id
                            THEN IF protected
                                 THEN r = [st |-> st, brk |-> FALSE]
                                 ELSE /\ r.brk = other.brk
                                      /\ r.st = AsStranger(other.st, ci)
                            ELSE r = DamagePair(st, ci, pi, es[pi].birth_instant, Dt)
              /\ \A ci \in 1..Len(es) :
                     ( /\ IsCharacter(es[ci])
                       /\ \A pi \in 1..Len(es) :
                              IsProjectile(es[pi])
                              => /\ es[pi].player_id = es[ci].player_id
                                 /\ clock - es[pi].birth_instant
                                       <= es[pi].role.kind.owner_invincibility_duration )
                     => /\ HealthsOf(game_state'.entities, es[ci].id) = {es[ci].health}
                        /\ Count(Queued(game_state, clock, Dt), es[ci].id) = 0
                        /\ PositionsOf(game_state'.entities, es[ci].id) = {es[ci].pos}
      ]_vars

\* C30 witness: after a proceed call the character of player 1 touches the
\* projectile of its own player, whose age is exactly
\* owner_invincibility_duration, and both are unharmed
WitnessOwnerInvincibility ==
    /\ tick.last_proceed_instant = clock /\ clock > 0
    /\ \E i, j \in 1..Len(game_state.entities) :
          LET p == game_state.entities[i]
              c == game_state.entities[j]
          IN  /\ IsProjectile(p) /\ IsCharacter(c)
              /\ c.player_id = p.player_id
              /\ clock - p.birth_instant = p.role.kind.owner_invincibility_duration
              /\ Touches(p, c)
              /\ c.health = CharacterHealth /\ p.id = 8
              /\ IsKind(p, "Mine") \/ p.health = p.role.kind.health

(***************************************************************************)
(* Sessions, the mutex and transport errors: the server threads of         *)
(* SessionInit.                                                            *)
(***************************************************************************)
\* the ids of the characters of p in the world
CharacterIdsOf(p, es) == {es[i].id : i \in CharactersOf(p, es)}

\* the connection thread of p is past its handshake and runs
InSession(p) == conn[p].connected /\ conn[p].pc \notin {"panicked", "stopped"}

\* C21: in every state each player_id owns at most one Character; a
\* connection past its handshake owns exactly one while its session is not
\* killed and none while it is killed; a Character of a player is removed
\* only by the account_kill of its own thread and created only by a
\* RespawnRequest that its thread handles while killed.
OneCharacterPerSession ==
    /\ [](\A p \in Players :
            /\ Cardinality(CharactersOf(p, game_state.entities)) <= 1
            /\ InSession(p)
               => Cardinality(CharactersOf(p, game_state.entities))
                     = IF conn[p].killed THEN 0 ELSE 1)
    /\ [][ \A p \in Players :
             LET before == CharacterIdsOf(p, game_state.entities)
                 after == CharacterIdsOf(p, game_state'.entities)
             IN  /\ before \ after # {} => KillAccount(p)
                 /\ after \ before # {}
                    => /\ conn[p].killed
                       /\ \E w \in PlayerWeapons : SessionRecv(p, RespawnRequest(w))
       ]_vars

\* C21 witness: player 1 has been killed and has asked for a weapon: its
\* thread has written Kill, its session is not killed and its only
\* character is a new one
WitnessOneCharacterPerSession ==
    /\ InSession(1) /\ ~conn[1].killed
    /\ sent[1].Kill = 1
    /\ CharacterIdsOf(1, game_state.entities) = {game_state.next_entity_id - 1}
    /\ InSession(2) /\ Cardinality(CharactersOf(2, game_state.entities)) = 1

\* C22: a RespawnRequest handled while the session is not killed changes
\* nothing: no entity is created and the weapon of the thread stays; handled
\* while the session is killed it clears killed and appends exactly one
\* Character of the player with the id next_entity_id, which no entity has
\* or had (the dead character of player 1 had the id 0), health 3 and the
\* weapon asked for.
RespawnRequestContract ==
    [][ \A p \in Players : \A w \in PlayerWeapons :
          SessionRecv(p, RespawnRequest(w)) =>
             IF ~conn[p].killed
             THEN game_state' = game_state /\ conn' = conn
             ELSE LET e == game_state'.entities[Len(game_state'.entities)]
                  IN  /\ ~conn'[p].killed
                      /\ conn'[p].weapon = CharacterWeaponFromPlayerWeapon(w)
                      /\ Len(game_state'.entities) = Len(game_state.entities) + 1
                      /\ SubSeq(game_state'.entities, 1, Len(game_state.entities))
                            = game_state.entities
                      /\ game_state'.kills = game_state.kills
                      /\ e.id = game_state.next_entity_id
                      /\ \A id \in Ids(game_state.entities) : id < e.id
                      /\ \A i \in 1..Len(game_state.kills) : game_state.kills[i] < e.id
                      /\ p = 1 => e.id # 0
                      /\ IsCharacter(e) /\ e.player_id = p
                      /\ e.health = 3
                      /\ e.role.weapon = CharacterWeaponFromPlayerWeapon(w)
                      /\ CharacterIdsOf(p, game_state'.entities) = {e.id}
      ]_vars

\* C22 witness: player 1 was killed, asked for the MineGun and has its
\* new character with it
WitnessRespawnRequestContract ==
    /\ sent[1].Kill = 1 /\ ~conn[1].killed /\ InSession(1)
    /\ conn[1].weapon.name = "MineGun"
    /\ \E i \in CharactersOf(1, game_state.entities) :
          /\ game_state.entities[i].role.weapon.name = "MineGun"
          /\ game_state.entities[i].health = 3
          /\ game_state.entities[i].id >= 4

\* the connection thread is inside write_package
Writing(p) == conn[p].pc \in {"kwrite", "bwrite"}

\* the connection thread sleeps or is about to read its socket
AtRest(p) == conn[p].pc = "top"

\* C23: the shared GameState is only reached through its mutex, and no
\* thread holds the mutex while it sleeps, reads its socket, or serializes
\* and writes a Broadcast or a Kill.
LockDiscipline ==
    \A p \in Players : (Writing(p) \/ AtRest(p)) => ~Holds(p)

\* a transport error ends the connection thread of p
TransportFails(p) == ReadFails(p) \/ KillWriteFails(p) \/ BroadcastWriteFails(p)

\* C24: when a read or a write of a connection fails with an error that is
\* not WouldBlock, that thread ends and nothing else changes: the other
\* connection threads, the simulation thread and GameState are as before
\* and the mutex is neither poisoned nor held; the character of the player
\* stays in the world from then on; and the other threads go on: while a
\* thread is ended the simulation thread runs, no other thread has panicked,
\* and the mutex they lock is not poisoned and not held by the ended thread.
TransportErrorIsolation ==
    /\ [][ \A p \in Players :
             TransportFails(p) =>
                /\ conn'[p].pc = "stopped"
                /\ \A q \in Players \ {p} : conn'[q] = conn[q]
                /\ game_state' = game_state
                /\ tick' = tick
                /\ poisoned' = poisoned /\ ~poisoned'
                /\ ~Holds(p)'
       ]_vars
    /\ [][ \A p \in Players :
             conn[p].pc = "stopped" =>
                /\ conn'[p] = conn[p]
                /\ CharacterIdsOf(p, game_state'.entities)
                      = CharacterIdsOf(p, game_state.entities)
       ]_vars
    /\ [](\A p \in Players :
            conn[p].pc = "stopped" =>
               /\ ~poisoned /\ ~Holds(p)
               /\ tick.pc = "run"
               /\ \A q \in Players \ {p} : conn[q].pc # "panicked")

\* C24 witness: the thread of player 1 has ended on a transport error
\* without having written Kill; its character, hit by a Ball and recorded
\* in kills, is in the world; at the last instant the simulation thread has
\* called proceed and the thread of player 2 has written a Broadcast
WitnessTransportErrorIsolation ==
    /\ conn[1].pc = "stopped"
    /\ sent[1].Kill = 0
    /\ CharacterIdsOf(1, game_state.entities) = {0}
    /\ HealthsOf(game_state.entities, 0) = {0}
    /\ Count(game_state.kills, 0) = 1
    /\ clock = MaxClock
    /\ tick.last_proceed_instant = clock
    /\ conn[2].last_broadcust_instant = clock
    /\ ~poisoned

(***************************************************************************)
(* Expiry and the order of the phases of proceed.                          *)
(***************************************************************************)
\* the time in which the first retain of proceed keeps a projectile
Lifetime(e) ==
    IF IsKind(e, "Ray")
    THEN e.role.kind.life_duration + e.role.kind.tail_freeze_duration
    ELSE e.role.kind.life_duration

\* the projectile has reached the end of its lifetime at instant now
Expired(e, now) == IsProjectile(e) /\ now - e.birth_instant >= Lifetime(e)

\* the entities without the projectiles that have expired at instant now
Unexpired(es, now) ==
    LET Alive(e) == ~Expired(e, now)
    IN  SelectSeq(es, Alive)

\* C31: a proceed call drops a Ball or a Mine exactly when the time since
\* its birth is not less than life_duration, and a Ray exactly when it is
\* not less than life_duration + tail_freeze_duration; the head of a Ray
\* stays where it is once life_duration has elapsed, and its tail end stays
\* where it is until more than tail_freeze_duration has elapsed; a projectile
\* dropped for expiry is absent from the damage resolution of the call, which
\* goes as in the world without it.
ProjectileExpiry ==
    [][ FlightProceed =>
          LET es == game_state.entities
              kept == Advanced(game_state, clock, Dt)
              after == game_state'.entities
          IN  /\ \A i \in 1..Len(es) :
                     IsProjectile(es[i])
                     => LET e == es[i]
                            kind == e.role.kind
                            age == clock - e.birth_instant
                            adv == AdvanceEntity(e, clock, Dt, Shields(es)).e
                        IN  /\ IsKind(e, "Ray")
                               => (e.id \in Ids(kept))
                                     = (age < kind.life_duration + kind.tail_freeze_duration)
                            /\ ~IsKind(e, "Ray")
                               => (e.id \in Ids(kept)) = (age < kind.life_duration)
                            /\ e.id \notin Ids(kept) => e.id \notin Ids(after)
                            /\ (IsKind(e, "Ray") /\ age >= kind.life_duration)
                               => /\ adv.pos = e.pos /\ adv.rot = e.rot
                                  /\ PositionsOf(after, e.id) \subseteq {e.pos}
                            /\ (IsKind(e, "Ray") /\ age <= kind.tail_freeze_duration)
                               => /\ adv.tail.end = e.tail.end
                                  /\ adv.tail.rotation = e.tail.rotation
              /\ Damaged(game_state, clock, Dt)
                    = Damaged([game_state EXCEPT !.entities = Unexpired(es, clock)], clock, Dt)
              /\ (\A i \in 1..Len(es) : IsProjectile(es[i]) => Expired(es[i], clock))
                 => game_state' = [game_state EXCEPT !.entities = Unexpired(es, clock)]
      ]_vars

\* C31 witness: a proceed call has dropped the projectile for expiry: no
\* projectile is in the world, nothing was created, nobody was hit or queued
WitnessProjectileExpiry ==
    /\ tick.last_proceed_instant = clock /\ clock > 0
    /\ \A i \in 1..Len(game_state.entities) :
          /\ IsCharacter(game_state.entities[i])
          /\ game_state.entities[i].health = CharacterHealth
    /\ game_state.kills = <<>>
    /\ game_state.next_entity_id \in {7, 11}

\* the entities of es with the id, as a set
WithId(es, id) == {es[i] : i \in {j \in 1..Len(es) : es[j].id = id}}

\* C32: in a proceed call the shield segments are collected first, then the
\* projectiles advance, then damage is resolved at the advanced positions,
\* then the killed projectiles are swept, then the debris is created.  The
\* characters keep their poses through the call, and every projectile the
\* call keeps has advanced against the shield segments of the poses at its
\* start; a character loses health only to a projectile that reaches it
\* after advancing, and a character that alone is reached loses one point;
\* no Ball or Ray whose health is 0 and no projectile recorded in kills is
\* left; the debris of the call are the last entities, with the ids from the
\* earlier next_entity_id on, exactly as the detonation of a mine of the
\* call has queued them: not moved, not hit, not activated, born at the call.
PhaseOrder ==
    [][ FlightProceed =>
          LET es0 == game_state.entities
              es == Advanced(game_state, clock, Dt)
              d == Damaged(game_state, clock, Dt)
              after == game_state'.entities
              n == Len(d.infos)
              old == SubSeq(after, 1, Len(after) - n)
          IN  /\ \A i \in 1..Len(es0) :
                     IsCharacter(es0[i])
                     => \A c \in WithId(after, es0[i].id) :
                           /\ c.pos = es0[i].pos /\ c.rot = es0[i].rot
                           /\ c.role = es0[i].role
              /\ Shields(after) = Shields(es0)
              /\ \A i \in 1..Len(es0) :
                     (IsProjectile(es0[i]) /\ ~IsKind(es0[i], "Mine"))
                     => \A e \in WithId(after, es0[i].id) :
                           LET adv == AdvanceEntity(es0[i], clock, Dt, Shields(es0)).e
                           IN  e.pos = adv.pos /\ e.rot = adv.rot /\ e.tail = adv.tail
              /\ \A ci \in 1..Len(es) :
                     (IsCharacter(es[ci]) /\ \A pi \in 1..Len(es) : ~IsKind(es[pi], "Mine"))
                     => /\ \A c \in WithId(after, es[ci].id) :
                              /\ c.health \in {es[ci].health, es[ci].health - 1}
                              /\ c.health # es[ci].health => InReach(es, ci, clock) # {}
                        /\ ( /\ InReach(es, ci, clock) # {}
                             /\ \A cj \in 1..Len(es) :
                                    (IsCharacter(es[cj]) /\ cj # ci)
                                    => InReach(es, cj, clock) = {} )
                           => HealthsOf(after, es[ci].id) = {es[ci].health - 1}
              /\ \A j \in 1..Len(after) :
                     IsProjectile(after[j])
                     => /\ Count(game_state'.kills, after[j].id) = 0
                        /\ IsKind(after[j], "Mine") \/ after[j].health # 0
              /\ game_state'.next_entity_id = game_state.next_entity_id + n
              /\ \A j \in 1..Len(old) :
                     /\ old[j].id < game_state.next_entity_id
                     /\ old[j] \in WithId(d.es, old[j].id)
              /\ \A k \in 1..n :
                     LET e == after[Len(after) - n + k]
                     IN  /\ e.id = game_state.next_entity_id + k - 1
                         /\ e = NewEntity(e.id, d.infos[k].info, d.infos[k].player_id, clock)
                         /\ ~e.activated /\ e.birth_instant = clock
                         /\ \E pi \in 1..Len(d.es) :
                               /\ IsKind(d.es[pi], "Mine")
                               /\ Count(Queued(game_state, clock, Dt), d.es[pi].id) > 0
                               /\ e.role = Projectile(d.es[pi].role.kind.debris_kind)
                               /\ e.player_id = d.es[pi].player_id
      ]_vars

\* C32 witness: a projectile that has crossed the shield segment of the
\* character 4 in a proceed call is on its way back on the near side of the
\* segment, and the character stands as before
WitnessPhaseOrder ==
    /\ tick.last_proceed_instant = clock /\ clock > 0
    /\ \E i, j \in 1..Len(game_state.entities) :
          LET c == game_state.entities[i]
              e == game_state.entities[j]
          IN  /\ IsCharacter(c) /\ c.id = 4 /\ c.role.weapon.name = "Shield"
              /\ c.health = CharacterHealth
              /\ IsProjectile(e) /\ e.id = 8
              /\ LET x == ShieldSegment(c.role.weapon.shield, c.pos, c.rot)
                 IN  /\ Abs(e.pos - x) <= 1
                     /\ e.rot = Signum(e.pos - x)

(***************************************************************************)
(* Shields and the world bounds in the arena.                              *)
(***************************************************************************)
\* the path from c to d passes, strictly between its ends, through the
\* segment (parallel to an axis) strictly between the ends of the segment
CrossesSegment(c, d, segment) ==
    IF segment.p0.x = segment.p1.x
    THEN CrossesVertical(c, d, segment.p0.x, Min(segment.p0.y, segment.p1.y),
                         Max(segment.p0.y, segment.p1.y))
    ELSE CrossesHorizontal(c, d, segment.p0.y, Min(segment.p0.x, segment.p1.x),
                           Max(segment.p0.x, segment.p1.x))

\* the path from c to d passes through an edge of the bounds b
CrossesBounds(c, d, b) ==
    \/ CrossesHorizontal(c, d, b.y, b.x, b.x + b.w)
    \/ CrossesVertical(c, d, b.x + b.w, b.y, b.y + b.h)
    \/ CrossesHorizontal(c, d, b.y + b.h, b.x, b.x + b.w)
    \/ CrossesVertical(c, d, b.x, b.y, b.y + b.h)

\* the point of the path from c to d at 99% of the way from c to the line
\* of the segment
ShortOf(c, d, segment) ==
    IF segment.p0.x = segment.p1.x
    THEN [x |-> c.x + Quot((segment.p0.x - c.x) * 99, 100),
          y |-> c.y + Quot((d.y - c.y) * (segment.p0.x - c.x) * 99, (d.x - c.x) * 100)]
    ELSE [x |-> c.x + Quot((d.x - c.x) * (segment.p0.y - c.y) * 99, (d.y - c.y) * 100),
          y |-> c.y + Quot((segment.p0.y - c.y) * 99, 100)]

\* the end of the motion segment of a step of the given distance
MotionEnd(distance) ==
    [x |-> geo.position.x + 2 * distance * geo.rotation.r,
     y |-> geo.position.y + 2 * distance * geo.rotation.i]

\* C33: a step whose motion segment crosses a shield takes the reflection of
\* the first shield crossed, in the order of the shields, and nothing else:
\* the position is the point of the motion segment just short of that
\* shield, the rotation is mirrored about the direction of that shield, and
\* no edge of the bounds acts, also when the motion segment crosses an edge
\* or another shield as well; a step reflects at a shield or at an edge,
\* never at both; without a shield crossed the step is the step of the
\* bounds alone.
ShieldPrecedence ==
    [][ \A distance \in ArenaDistances :
          ArenaStep(distance) =>
              LET c == geo.position
                  d == MotionEnd(distance)
                  crossed == {i \in 1..Len(geo.shields) : CrossesSegment(c, d, geo.shields[i])}
              IN  /\ geo'.shield = 0 \/ geo'.edge = 0 - 1
                  /\ IF crossed # {}
                     THEN LET k == Least(crossed)
                              segment == geo.shields[k]
                          IN  /\ geo'.shield = k
                              /\ geo'.edge = 0 - 1
                              /\ geo'.position = ShortOf(c, d, segment)
                              /\ geo'.rotation =
                                    IF segment.p0.x = segment.p1.x
                                    THEN [r |-> 0 - geo.rotation.r, i |-> geo.rotation.i]
                                    ELSE [r |-> geo.rotation.r, i |-> 0 - geo.rotation.i]
                     ELSE LET b == PlaneStep(c, geo.rotation, ArenaBounds, distance)
                          IN  /\ geo'.shield = 0
                              /\ geo'.position = b.position
                              /\ geo'.rotation = b.rotation
                              /\ geo'.edge = b.edge ]_vars

\* C33 witness: the first step of a projectile has crossed the right edge of
\* the bounds and, behind it, the second shield in order: the shield has
\* turned it back, no edge has acted
WitnessShieldPrecedence ==
    /\ geo.steps = 1
    /\ geo.shield = 2 /\ geo.edge = 0 - 1
    /\ geo.position.x > ArenaBounds.x + ArenaBounds.w
    /\ geo.position.x < geo.shields[2].p0.x
    /\ geo.rotation = [r |-> 0 - 1, i |-> 0]

\* the point lies in the closed rectangle b
InsideClosed(point, b) ==
    /\ b.x <= point.x /\ point.x <= b.x + b.w
    /\ b.y <= point.y /\ point.y <= b.y + b.h

\* C34: a projectile created inside the world bounds is inside the closed
\* rectangle of the world bounds after every step, whether it advanced, was
\* reflected at an edge, was reflected at a shield, or flew at a corner.
ArenaContainment ==
    InsideClosed(geo.position, ArenaBounds)

(***************************************************************************)
(* Rays in the game state of the server.                                   *)
(***************************************************************************)
\* the rays among the entities
Rays(es) == {i \in 1..Len(es) : IsProjectile(es[i]) /\ es[i].role.kind.name = "Ray"}

\* C35: every Ray in the game state of the server has a tail and an instant
\* of birth, which is an instant of the clock not after now, whether a
\* weapon has fired it or a mine has left it as debris.
RaysHaveTails ==
    \A i \in Rays(game_state.entities) :
        LET e == game_state.entities[i]
        IN  /\ e.tail.some
            /\ e.birth_instant \in Int
            /\ e.birth_instant <= clock

\* C35 witness: a ray that player 2 has fired and a ray that a mine of
\* player 1 has left as debris are in the world, both created since the
\* start and advanced by the simulation thread
WitnessRaysHaveTails ==
    /\ clock > 0
    /\ tick.last_proceed_instant = clock
    /\ \E i, j \in Rays(game_state.entities) :
          LET fired == game_state.entities[i]
              debris == game_state.entities[j]
          IN  /\ fired.id >= 9 /\ fired.player_id = 2
              /\ fired.birth_instant < clock
              /\ \E weapon \in RayWeapons :
                    fired.role.kind.velocity = CharacterWeaponFromPlayerWeapon(weapon).velocity
              /\ debris.id > fired.id /\ debris.player_id = 1
              /\ debris.role.kind =
                    CharacterWeaponFromPlayerWeapon("MineGun").debris_kind.debris_kind

(***************************************************************************)
(* The snapshots of the client.                                            *)
(***************************************************************************)
\* the entities that are not the player's, in order
Others(es, player_id) == SelectSeq(es, LAMBDA e : e.player_id # player_id)

\* the entities of the player, as a set
Own(es, player_id) == {es[i] : i \in {j \in 1..Len(es) : es[j].player_id = player_id}}

\* the Broadcasts among the packages, in order
Broadcasts(packages) == SelectSeq(packages, LAMBDA package : package.type = "Broadcast")

\* C36: when the client has handled a Broadcast, penultimate_received is the
\* last_received it held before, last_received is the game state of the
\* Broadcast, and prediction is that game state except for the entity of
\* the local player, which is the one received or the one the prediction
\* held; Broadcasts are handled in the order of arrival, so that a frame
\* that reads several leaves the last but one and the last of them as
\* penultimate_received and last_received.
SnapshotShift ==
    [][ \A movement \in ClientMovements : \A t \in InterpolationValues :
          ClientFrame(1, movement, t) =>
              LET i == ClientInput(client[1], movement)
                  packages == to_client[1]
                  at(k) == OnPackages(i, SubSeq(packages, 1, k), i.c.last_sequence_number).c
                  bs == Broadcasts(packages)
              IN  /\ \A k \in 1..Len(packages) :
                        packages[k].type = "Broadcast"
                        => LET before == at(k - 1)
                               after == at(k)
                               fresh == packages[k].game_state
                           IN  /\ after.penultimate_received = before.last_received
                               /\ after.last_received = fresh
                               /\ Others(after.prediction, after.player_id)
                                     = Others(fresh, after.player_id)
                               /\ Own(after.prediction, after.player_id)
                                     \subseteq Own(fresh, after.player_id)
                                               \cup Own(before.prediction, after.player_id)
                               /\ Len(after.prediction) \in {Len(fresh), Len(fresh) + 1}
                  /\ IF bs = <<>>
                     THEN /\ client'[1].last_received = client[1].last_received
                          /\ client'[1].penultimate_received = client[1].penultimate_received
                     ELSE /\ client'[1].last_received = bs[Len(bs)].game_state
                          /\ client'[1].penultimate_received =
                                IF Len(bs) >= 2 THEN bs[Len(bs) - 1].game_state
                                ELSE client[1].last_received ]_vars

\* C36 witness: the client has handled two Broadcasts with different game
\* states and holds them in the order of arrival, the first one without the
\* character of another player and the second one with it; its prediction
\* keeps its own character where the input block has put it
WitnessSnapshotShift ==
    /\ to_client[1] = <<>>
    /\ peer >= 2
    /\ client[1].player_id = 1
    /\ Len(client[1].penultimate_received) = 1
    /\ Len(client[1].last_received) = 2
    /\ client[1].penultimate_received[1].player_id = 1
    /\ Others(client[1].prediction, 1) = Others(client[1].last_received, 1)
    /\ Own(client[1].prediction, 1) # Own(client[1].last_received, 1)

\* C37: lerp_merge leaves the entities of the local player alone: every
\* entity of that player which the prediction holds before lerp_merge is at
\* its place and unchanged after it, whatever t is, and the prediction
\* holds no further entity of that player after it.
LerpMergeSkipsLocal ==
    [][ \A movement \in ClientMovements : \A t \in InterpolationValues :
          (ClientFrame(1, movement, t) /\ client'[1].player_id # 0)
              => LET i == ClientInput(client[1], movement)
                     before == OnPackages(i, to_client[1], i.c.last_sequence_number).c.prediction
                     result == client'[1].prediction
                     own == client'[1].player_id
                 IN  /\ Len(result) >= Len(before)
                     /\ \A k \in 1..Len(before) :
                           before[k].player_id = own => result[k] = before[k]
                     /\ \A k \in 1..Len(result) :
                           result[k].player_id = own
                               => k <= Len(before) /\ before[k] = result[k] ]_vars

\* C37 witness: penultimate_received and last_received hold the character
\* of the local player at different positions and the character of the
\* other player at different positions; the prediction holds the other one
\* where penultimate_received has it, and the local one where the input
\* block has put it, beyond both snapshots
WitnessLerpMergeSkipsLocal ==
    /\ client[1].player_id = 1
    /\ to_client[1] = <<>>
    /\ Len(client[1].penultimate_received) = 2
    /\ Len(client[1].last_received) = 2
    /\ Len(client[1].prediction) = 2
    /\ LET a == client[1].penultimate_received
           b == client[1].last_received
           result == client[1].prediction
       IN  /\ a[1].player_id = 1 /\ b[1].player_id = 1 /\ result[1].player_id = 1
           /\ a[1].pos < b[1].pos
           /\ result[1].pos > b[1].pos
           /\ a[2].pos # b[2].pos
           /\ result[2].pos = a[2].pos

(***************************************************************************)
(* The sequence numbers of the client.                                     *)
(***************************************************************************)
\* the PlayerInputs among the packages, in order
PlayerInputs(packages) == SelectSeq(packages, LAMBDA package : package.type = "PlayerInput")

\* what a frame has written: the packages of after behind those of before
Written(before, after) == SubSeq(after, Len(before) + 1, Len(after))

\* a frame counts the sequence number up by one for the one PlayerInput it
\* writes, which carries the new number, and leaves it alone when it writes
\* none: the numbers on the stream are 1, 2, 3, ... in order
CountsByOne ==
    [][ \A movement \in ClientMovements :
          KeysFrame(movement, TScale) =>
              LET inputs == PlayerInputs(Written(to_server[1], to_server'[1]))
                  before == PlayerInputs(to_server[1])
              IN  /\ client[1].last_sequence_number = Len(before)
                  /\ \A k \in 1..Len(before) : before[k].sequence_number = k
                  /\ Len(inputs) <= 1
                  /\ client'[1].last_sequence_number
                        = client[1].last_sequence_number + Len(inputs)
                  /\ inputs # <<>>
                        => inputs[1].sequence_number = client'[1].last_sequence_number ]_vars

\* C38: the sequence number of the client starts at 0 and is counted up by
\* one right before each PlayerInput, which carries the new number, so the
\* numbers on the stream are 1, 2, 3, ...; a frame in which the keys are
\* held as in the frame before writes no PlayerInput and leaves the number
\* alone.
ClientSequenceNumbers ==
    /\ CountsByOne
    /\ [][ \A movement \in ClientMovements :
             (KeysFrame(movement, TScale) /\ movement = geo.movement)
                 => /\ PlayerInputs(Written(to_server[1], to_server'[1])) = <<>>
                    /\ client'[1].last_sequence_number
                          = client[1].last_sequence_number ]_vars

(***************************************************************************)
(* The sequence number that the server echoes.                             *)
(***************************************************************************)
\* C39: every Broadcast written to a connection carries the sequence_number
\* of the last PlayerInput of that connection that the server read while
\* the player had a character; a PlayerInput read while the player has no
\* character moves nothing and leaves that number alone; the number never
\* goes down and is never above the last number the client has given out.
EchoedSequenceNumber ==
    /\ [][ ClientBroadcast(1) =>
             \A k \in 1..Len(Broadcasts(Written(to_client[1], to_client'[1]))) :
                LET package == Broadcasts(Written(to_client[1], to_client'[1]))[k]
                IN  /\ package.sequence_number = geo.applied
                    /\ package.sequence_number <= client[1].last_sequence_number ]_vars
    /\ [][ EchoRecv(1) =>
             /\ geo'.applied >= geo.applied
             /\ conn'[1].last_sequence_number = geo'.applied
             /\ (/\ Head(to_server[1]).type = "PlayerInput"
                 /\ FindCharacterByPlayerId(game_state.entities, 1) = 0)
                    => /\ game_state' = game_state
                       /\ conn'[1].last_sequence_number = conn[1].last_sequence_number ]_vars
    /\ [][ geo'.applied >= geo.applied ]_vars

\* C39 witness: the server has read PlayerInput 2 while the player had no
\* character and has written a Broadcast since, which echoes 1; the player
\* has a character again
WitnessEchoedSequenceNumber ==
    /\ client[1].last_sequence_number = 2
    /\ packages_read >= 2
    /\ to_server[1] = <<>>
    /\ FindCharacterByPlayerId(game_state.entities, 1) # 0
    /\ Broadcasts(to_client[1]) # <<>>
    /\ Broadcasts(to_client[1])[1].sequence_number = 1
    /\ Len(Broadcasts(to_client[1])[1].game_state) = 2
====
